---- MODULE Spec2Model ----
(***************************************************************************)
(* Lark ingestion pipeline: the serialized write queue with the message    *)
(* table (persistence.ts, history.ts) and the resource download lifecycle  *)
(* (resource.ts).                                                          *)
(***************************************************************************)
EXTENDS Integers, Sequences, FiniteSets, TLC

(***************************************************************************)
(* Bounds of the write-queue model.                                        *)
(***************************************************************************)
MaxTasks == 2
MaxHistRuns == 1

(* accounts and the connection identity (context.key) each resolves to:   *)
(* a1 and a2 share one store and table prefix, a3 has its own.             *)
WqAccounts == {"a1", "a2", "a3"}
Keys == {"k1", "k2"}
Msgs == {"m1", "m2"}
Contents == {"c1", "c2"}

resolveLarkMySqlContext(account) == IF account = "a3" THEN "k2" ELSE "k1"

(* inbound events: the message id, the content, the chat and the tenant;   *)
(* m1 arrives in two versions (the original and an edit)                   *)
MessageEvents ==
  {e \in [message_id : Msgs, content : Contents, chat_id : {"oc1"}, tenant_key : {"t1"}] :
     e.message_id = "m2" => e.content = "c1"}

(* the events each account receives                                        *)
EventsOf(account) ==
  IF account # "a1" THEN {e \in MessageEvents : e.message_id = "m1" /\ e.content = "c1"}
  ELSE MessageEvents

(* whether the account's runtime env carries an error callback             *)
EnvHasError(account) == account # "a2"

(* history items as the platform lists them for a chat                     *)
HistoryItems == [message_id : {"m1"}, content : {"c1"}, chat_id : {"oc1"}]
HistoryPages == {<<h>> : h \in HistoryItems}

(* the accounts whose bot is added to the chat                             *)
HistoryAccounts == {"a1"}

NoWrite == <<>>

(* JSON.stringify(event) / JSON.stringify(message.raw): the serialized     *)
(* form keeps every field, and the two shapes never serialize alike.       *)
StringifyEvent(event) == <<"event", event.message_id, event.chat_id, event.tenant_key, event.content>>
StringifyHistory(item) == <<"item", item.message_id, item.chat_id, item.content>>

(* sha256 over messageId ":" payload, kept as the digested byte string     *)
computeDedupeHash(messageId, payload) == <<messageId, ":">> \o payload

VARIABLES
  writeQueues,    \* persistence.ts writeQueues: key -> last promise of the chain (0: none)
  tasks,          \* the tasks handed to enqueueWrite, in call order
  msgTable,       \* key -> rows of lark_message
  chatTable,      \* key -> rows of lark_chat
  errorSink,      \* tasks whose failure env.error was called with
  histRuns,       \* runs of bootstrapLarkChatHistory
  bootstrapDone,  \* key -> im_chat.bootstrap_done of the chat
  lastSubmitted,  \* key -> message id -> payload of the last submitted write
  failedWrites    \* key -> message ids with a write that failed

wqVars == <<writeQueues, tasks, msgTable, chatTable, errorSink, histRuns, bootstrapDone,
            lastSubmitted, failedWrites>>

VARIABLES
  resources,          \* rows of message_resource, in id (and created_at) order
  downloadInFlight,   \* resource.ts downloadInFlight: account ids with a drain loop
  loops,              \* account -> position of its processResourceQueue run
  regs,               \* enqueueLarkMessageResources calls whose upsert or .then is pending
  regCount,           \* number of enqueueLarkMessageResources calls so far
  transferCalls,      \* ids and declared sizes client.im.messageResource.get was called for
  bodyWrites,         \* ids response.writeFile was called for
  extractionSignals   \* ids after whose download scheduleLarkExtraction was called

resVars == <<resources, downloadInFlight, loops, regs, regCount, transferCalls, bodyWrites,
             extractionSignals>>

VARIABLES
  extractions,         \* rows of content_extraction, unique on (tenant_key, resource_id)
  extractionInFlight,  \* extraction.ts extractionInFlight: account ids with a drain loop
  extLoops,            \* account -> position of its processExtractionQueue run
  capabilityCalls,     \* <<capability, resource id>> of the calls of runOcr, runOpenAiAsr, extractDocxText
  memoryCalls,         \* resource ids recordLarkMemoryFromExtraction was called for
  memoryItems,         \* rows of memory_item written by insertMemoryItems
  serviceStarted       \* accounts the directory sync service start called scheduleLarkExtraction for

extVars == <<extractions, extractionInFlight, extLoops, capabilityCalls, memoryCalls,
             memoryItems, serviceStarted>>

VARIABLES
  schemaReady,           \* mysql.ts schemaReady: key -> memoized creation run (0: no entry)
  schemaRuns,            \* the creation runs ensureLarkSchema started, in start order
  syncRuns,              \* the executions of runLarkDirectorySync, in start order
  timers,                \* directory-sync.ts timers: account ids with an interval timer
  inFlight,              \* directory-sync.ts inFlight: account ids with a sync under way
  orgDepartment,         \* committed rows of org_department
  orgUser,               \* committed rows of org_user
  orgUserDepartmentRel   \* committed rows of org_user_department_rel

dirVars == <<schemaReady, schemaRuns, syncRuns, timers, inFlight, orgDepartment, orgUser,
             orgUserDepartmentRel>>

vars == <<wqVars, resVars, extVars, dirVars>>

TaskIds == 1..Len(tasks)

Settled(st) == st \in {"resolved", "rejected", "skipped"}

(***************************************************************************)
(* enqueueWrite: the promise chain.                                        *)
(***************************************************************************)
(* variant: every call starts a fresh chain                                *)
ExistingPromiseUnchained(wq, key) == 0

(* variant: one chain for all keys                                         *)
ExistingPromiseAnyKey(wq, key) ==
  IF \E k \in Keys : wq[k] # 0
    THEN LET m == CHOOSE n \in {wq[k] : k \in Keys} : \A k \in Keys : wq[k] <= n IN m
    ELSE 0

(* writeQueues.get(params.key) ?? Promise.resolve()                        *)
ExistingPromise(wq, key) == wq[key]

(* existing.catch(() => undefined): a rejected predecessor is absorbed     *)
AfterCatch(prom) == "fulfilled"

(* .then(params.task) runs the task when the promise before it fulfilled   *)
TaskRuns(prom) == AfterCatch(prom) = "fulfilled"

(* variant: the chain without its trailing .catch                          *)
ChainOutcomeNoCatch(st, sink) ==
  [prom |-> IF st = "resolved" THEN "fulfilled" ELSE "rejected", logged |-> FALSE]

(* .catch((err) => params.env?.error?.(...)): the chain promise fulfils    *)
(* whatever the task did, and the error goes to env.error when there is one *)
ChainOutcome(st, sink) ==
  [prom |-> "fulfilled", logged |-> st # "resolved" /\ sink]

PromOf(p) == IF p = 0 THEN "fulfilled" ELSE tasks[p].prom

(***************************************************************************)
(* The upserts of persistMessage / persistHistoryMessage.                  *)
(***************************************************************************)
RowIndex(table, messageId) ==
  IF \E i \in 1..Len(table) : table[i].message_id = messageId
    THEN CHOOSE i \in 1..Len(table) : table[i].message_id = messageId
    ELSE 0

(* variant: the unique key is on the dedupe hash                           *)
UpsertMessageByHash(table, row) ==
  IF \E i \in 1..Len(table) : table[i].dedupe_hash = row.dedupe_hash
    THEN table
    ELSE Append(table, [row EXCEPT !.id = Len(table) + 1])

(* INSERT ... ON DUPLICATE KEY UPDATE on UNIQUE KEY uniq_message_id        *)
UpsertMessage(table, row) ==
  LET i == RowIndex(table, row.message_id) IN
  IF i = 0
    THEN Append(table, [row EXCEPT !.id = Len(table) + 1])
    ELSE [table EXCEPT ![i] = [row EXCEPT !.id = table[i].id]]

UpsertChat(table, chatId, tenantKey) ==
  {r \in table : r.chat_id # chatId} \cup {[chat_id |-> chatId, tenant_key |-> tenantKey]}

EventRow(event) ==
  [id |-> 0, message_id |-> event.message_id, chat_id |-> event.chat_id,
   tenant_key |-> event.tenant_key, content |-> event.content,
   dedupe_hash |-> computeDedupeHash(event.message_id, StringifyEvent(event)),
   raw_event |-> StringifyEvent(event)]

HistoryRow(item, tenantKey) ==
  [id |-> 0, message_id |-> item.message_id, chat_id |-> item.chat_id,
   tenant_key |-> tenantKey, content |-> item.content,
   dedupe_hash |-> computeDedupeHash(item.message_id, StringifyHistory(item)),
   raw_event |-> StringifyHistory(item)]

(***************************************************************************)
(* Actions of the write queue.                                             *)
(***************************************************************************)
WqInit ==
  /\ writeQueues = [k \in Keys |-> 0]
  /\ tasks = <<>>
  /\ msgTable = [k \in Keys |-> <<>>]
  /\ chatTable = [k \in Keys |-> {}]
  /\ errorSink = {}
  /\ histRuns = <<>>
  /\ bootstrapDone = [k \in Keys |-> FALSE]
  /\ lastSubmitted = [k \in Keys |-> [m \in Msgs |-> NoWrite]]
  /\ failedWrites = [k \in Keys |-> {}]

(* enqueueLarkMessagePersist -> enqueueWrite                               *)
enqueueLarkMessagePersist(account, event, sink) ==
  LET key == resolveLarkMySqlContext(account) IN
  /\ Len(tasks) < MaxTasks
  /\ tasks' = Append(tasks, [key |-> key, event |-> event, sink |-> sink,
                             pred |-> ExistingPromise(writeQueues, key),
                             st |-> "queued", prom |-> "pending"])
  /\ writeQueues' = [writeQueues EXCEPT ![key] = Len(tasks) + 1]
  /\ lastSubmitted' = [lastSubmitted EXCEPT ![key][event.message_id] = StringifyEvent(event)]
  /\ UNCHANGED resVars
  /\ UNCHANGED dirVars
  /\ UNCHANGED extVars
  /\ UNCHANGED <<msgTable, chatTable, errorSink, histRuns, bootstrapDone, failedWrites>>

(* the chain reaches .then(params.task)                                    *)
TaskStart(t) ==
  /\ tasks[t].st = "queued"
  /\ PromOf(tasks[t].pred) # "pending"
  /\ tasks' = [tasks EXCEPT ![t].st =
                 IF TaskRuns(PromOf(tasks[t].pred)) THEN "chat" ELSE "skipped"]
  /\ UNCHANGED resVars
  /\ UNCHANGED dirVars
  /\ UNCHANGED extVars
  /\ UNCHANGED <<writeQueues, msgTable, chatTable, errorSink, histRuns, bootstrapDone,
                 lastSubmitted, failedWrites>>

(* ensureLarkSchema, then the chat and user upserts of persistMessage      *)
TaskChatUser(t) ==
  /\ tasks[t].st = "chat"
  /\ chatTable' = [chatTable EXCEPT ![tasks[t].key] =
                     UpsertChat(@, tasks[t].event.chat_id, tasks[t].event.tenant_key)]
  /\ tasks' = [tasks EXCEPT ![t].st = "message"]
  /\ UNCHANGED resVars
  /\ UNCHANGED dirVars
  /\ UNCHANGED extVars
  /\ UNCHANGED <<writeQueues, msgTable, errorSink, histRuns, bootstrapDone,
                 lastSubmitted, failedWrites>>

(* the message upsert of persistMessage; the task resolves                 *)
TaskMessage(t) ==
  /\ tasks[t].st = "message"
  /\ msgTable' = [msgTable EXCEPT ![tasks[t].key] = UpsertMessage(@, EventRow(tasks[t].event))]
  /\ tasks' = [tasks EXCEPT ![t].st = "resolved"]
  /\ UNCHANGED resVars
  /\ UNCHANGED dirVars
  /\ UNCHANGED extVars
  /\ UNCHANGED <<writeQueues, chatTable, errorSink, histRuns, bootstrapDone,
                 lastSubmitted, failedWrites>>

(* a statement of the task (schema or upsert) throws; the task rejects     *)
TaskFail(t) ==
  /\ tasks[t].st \in {"chat", "message"}
  /\ tasks' = [tasks EXCEPT ![t].st = "rejected"]
  /\ failedWrites' = [failedWrites EXCEPT ![tasks[t].key] = @ \cup {tasks[t].event.message_id}]
  /\ UNCHANGED resVars
  /\ UNCHANGED dirVars
  /\ UNCHANGED extVars
  /\ UNCHANGED <<writeQueues, msgTable, chatTable, errorSink, histRuns, bootstrapDone,
                 lastSubmitted>>

(* the trailing .catch of the chain settles the promise kept in the map    *)
ChainSettle(t) ==
  /\ Settled(tasks[t].st)
  /\ tasks[t].prom = "pending"
  /\ LET out == ChainOutcome(tasks[t].st, tasks[t].sink) IN
       /\ tasks' = [tasks EXCEPT ![t].prom = out.prom]
       /\ errorSink' = IF out.logged THEN errorSink \cup {t} ELSE errorSink
  /\ UNCHANGED resVars
  /\ UNCHANGED dirVars
  /\ UNCHANGED extVars
  /\ UNCHANGED <<writeQueues, msgTable, chatTable, histRuns, bootstrapDone,
                 lastSubmitted, failedWrites>>

(***************************************************************************)
(* bootstrapLarkChatHistory: the backfill writes the same tables directly. *)
(***************************************************************************)
HistIds == 1..Len(histRuns)

(* isBootstrapDone is false; the recent messages of the chat are fetched   *)
bootstrapLarkChatHistory(account, page) ==
  LET key == resolveLarkMySqlContext(account) IN
  /\ Len(histRuns) < MaxHistRuns
  /\ ~bootstrapDone[key]
  /\ histRuns' = Append(histRuns, [key |-> key, account |-> account, items |-> page,
                                   i |-> 1, st |-> "chat"])
  /\ lastSubmitted' = [lastSubmitted EXCEPT ![key][page[1].message_id] = StringifyHistory(page[1])]
  /\ UNCHANGED resVars
  /\ UNCHANGED dirVars
  /\ UNCHANGED extVars
  /\ UNCHANGED <<writeQueues, tasks, msgTable, chatTable, errorSink, bootstrapDone, failedWrites>>

(* resolveLarkTenantKey(account, tenantKey) of a run without tenant key    *)
HistTenantKey(h) == histRuns[h].account

(* persistHistoryMessage: ensureLarkSchema and the chat and user upserts   *)
HistChatUser(h) ==
  /\ histRuns[h].st = "chat"
  /\ chatTable' = [chatTable EXCEPT ![histRuns[h].key] =
                     UpsertChat(@, histRuns[h].items[histRuns[h].i].chat_id, HistTenantKey(h))]
  /\ histRuns' = [histRuns EXCEPT ![h].st = "message"]
  /\ UNCHANGED resVars
  /\ UNCHANGED dirVars
  /\ UNCHANGED extVars
  /\ UNCHANGED <<writeQueues, tasks, msgTable, errorSink, bootstrapDone, lastSubmitted, failedWrites>>

(* persistHistoryMessage: the message upsert; then the next message of the *)
(* page, or markBootstrapDone after the last one                           *)
HistMessage(h) ==
  LET run == histRuns[h]
      last == run.i = Len(run.items) IN
  /\ run.st = "message"
  /\ msgTable' = [msgTable EXCEPT ![run.key] = UpsertMessage(@, HistoryRow(run.items[run.i], HistTenantKey(h)))]
  /\ histRuns' = [histRuns EXCEPT ![h].st = IF last THEN "done" ELSE "chat",
                                  ![h].i = IF last THEN run.i ELSE run.i + 1]
  /\ bootstrapDone' = IF last THEN [bootstrapDone EXCEPT ![run.key] = TRUE] ELSE bootstrapDone
  /\ lastSubmitted' = IF last THEN lastSubmitted
                      ELSE [lastSubmitted EXCEPT ![run.key][run.items[run.i + 1].message_id] =
                              StringifyHistory(run.items[run.i + 1])]
  /\ UNCHANGED resVars
  /\ UNCHANGED dirVars
  /\ UNCHANGED extVars
  /\ UNCHANGED <<writeQueues, tasks, chatTable, errorSink, failedWrites>>

(* a statement of the backfill throws; the run ends, the caller logs       *)
HistFail(h) ==
  /\ histRuns[h].st \in {"chat", "message"}
  /\ histRuns' = [histRuns EXCEPT ![h].st = "failed"]
  /\ failedWrites' = [failedWrites EXCEPT ![histRuns[h].key] =
                        @ \cup {histRuns[h].items[histRuns[h].i].message_id}]
  /\ UNCHANGED resVars
  /\ UNCHANGED dirVars
  /\ UNCHANGED extVars
  /\ UNCHANGED <<writeQueues, tasks, msgTable, chatTable, errorSink, bootstrapDone, lastSubmitted>>

WqNext ==
  \/ \E a \in WqAccounts, e \in MessageEvents :
       e \in EventsOf(a) /\ enqueueLarkMessagePersist(a, e, EnvHasError(a))
  \/ \E t \in TaskIds : TaskStart(t)
  \/ \E t \in TaskIds : TaskChatUser(t)
  \/ \E t \in TaskIds : TaskMessage(t)
  \/ \E t \in TaskIds : TaskFail(t)
  \/ \E t \in TaskIds : ChainSettle(t)
  \/ \E a \in HistoryAccounts, p \in HistoryPages : bootstrapLarkChatHistory(a, p)
  \/ \E h \in HistIds : HistChatUser(h)
  \/ \E h \in HistIds : HistMessage(h)
  \/ \E h \in HistIds : HistFail(h)

(***************************************************************************)
(* The resource download lifecycle (resource.ts).                          *)
(***************************************************************************)
MaxRegs == 2

MAX_ATTEMPTS == 3
DEFAULT_MAX_RESOURCE_MB == 100
DOWNLOAD_BATCH_SIZE == 10
BytesPerMb == 1024 * 1024

NULL == "NULL"        \* a NULL / undefined string
NoNumber == -1        \* a NULL / undefined number
NoPath == <<>>        \* a NULL storage_path

ResAccounts == {"a1", "a2"}

(* account.config.resourceMaxMb: a1 leaves it unset, a2 allows 200 MB      *)
resourceMaxMb(account) == IF account = "a2" THEN 200 ELSE NoNumber

SizeAtLimit == 100 * BytesPerMb
SizeOver == 150 * BytesPerMb

Max(x, y) == IF x >= y THEN x ELSE y

maxBytesOf(account) ==
  LET maxMb == IF resourceMaxMb(account) = NoNumber THEN DEFAULT_MAX_RESOURCE_MB
               ELSE resourceMaxMb(account)
  IN Max(1, maxMb) * BytesPerMb

(* resolveLarkTenantKey(account, tenantKey)                                *)
resolveLarkTenantKey(account, tenantKey) ==
  IF tenantKey # NULL THEN tenantKey ELSE account

(* the inbound events of the model: message id and type, the values the    *)
(* pick* helpers find in the parsed content, and the event's tenant_key    *)
ResEvent(mid, mtype, imageKey, fileKey, docToken, fileName, mimeType, fileSize, tenantKey) ==
  [message_id |-> mid, chat_id |-> "oc1", message_type |-> mtype, image_key |-> imageKey,
   file_key |-> fileKey, media_key |-> NULL, doc_token |-> docToken, file_name |-> fileName,
   mime_type |-> mimeType, file_size |-> fileSize, tenant_key |-> tenantKey]

ResEvents ==
  { ResEvent("m1", "image", "img1", NULL, NULL, NULL, NULL, NoNumber, NULL),
    ResEvent("m1", "Image", "img1", NULL, NULL, "a/b", "image/png", SizeOver, NULL),
    ResEvent("m2", "file", NULL, "f1", "d1", "n1", NULL, SizeOver, NULL),
    ResEvent("m2", "post", NULL, "f1", NULL, NULL, NULL, SizeAtLimit, NULL),
    ResEvent("m3", "image", NULL, "f1", NULL, NULL, NULL, NoNumber, "t9"),
    ResEvent("m3", "text", NULL, NULL, NULL, NULL, NULL, NoNumber, NULL) }

(* the events each account receives                                        *)
ResEventsOf(account) ==
  IF account = "a2" THEN {e \in ResEvents : e.message_id = "m1" /\ e.file_name = NULL}
  ELSE ResEvents

toLowerCase(s) == IF s = "Image" THEN "image" ELSE s

(* sanitizeFileName: the characters \ / : * ? " < > | become _             *)
sanitizeFileName(raw) == IF raw = "a/b" THEN "a_b" ELSE raw

Coalesce(x, y) == IF x # NULL THEN x ELSE y

(* extractResources over the picked values of the parsed content           *)
extractResources(ev) ==
  LET messageType == toLowerCase(ev.message_type)
      base(type, key) ==
        [messageId |-> ev.message_id, chatId |-> ev.chat_id, resourceType |-> type,
         fileKey |-> key, fileName |-> ev.file_name, mimeType |-> ev.mime_type,
         sizeBytes |-> ev.file_size]
      imageKeyValue == Coalesce(ev.image_key, ev.file_key)
      image == IF (ev.image_key # NULL \/ messageType = "image") /\ imageKeyValue # NULL
                 THEN <<base("image", imageKeyValue)>> ELSE <<>>
      binaryKey == Coalesce(ev.file_key, ev.media_key)
      binary == IF binaryKey # NULL /\ messageType \in {"file", "audio", "media"}
                  THEN <<base(messageType, binaryKey)>>
                ELSE IF binaryKey # NULL /\ ev.image_key = NULL
                  THEN <<base("file", binaryKey)>>
                ELSE <<>>
      doc == IF ev.doc_token # NULL
               THEN <<[base("doc", ev.doc_token) EXCEPT !.mimeType = NULL, !.sizeBytes = NoNumber]>>
             ELSE <<>>
  IN image \o binary \o doc

ResIds == 1..Len(resources)

RowMatch(table, tenantKey, messageId, fileKey) ==
  {i \in 1..Len(table) : /\ table[i].tenant_key = tenantKey
                         /\ table[i].message_id = messageId
                         /\ table[i].file_key = fileKey}

(* variant: the duplicate-key update rewrites the whole row                *)
UpsertOneResetting(table, tenantKey, r) ==
  LET hit == RowMatch(table, tenantKey, r.messageId, r.fileKey)
      fresh == [id |-> Len(table) + 1, tenant_key |-> tenantKey, message_id |-> r.messageId,
                chat_id |-> r.chatId, resource_type |-> r.resourceType, file_key |-> r.fileKey,
                file_name |-> r.fileName, mime_type |-> r.mimeType, size_bytes |-> r.sizeBytes,
                status |-> IF r.resourceType = "doc" THEN "linked" ELSE "pending",
                storage_path |-> NoPath, error |-> NULL, attempts |-> 0]
  IN IF hit = {} THEN Append(table, fresh)
     ELSE LET i == CHOOSE j \in hit : TRUE IN
          [table EXCEPT ![i] = [fresh EXCEPT !.id = table[i].id]]

(* variant: the table without its unique key                               *)
UpsertOneNoUnique(table, tenantKey, r) ==
  Append(table,
    [id |-> Len(table) + 1, tenant_key |-> tenantKey, message_id |-> r.messageId,
     chat_id |-> r.chatId, resource_type |-> r.resourceType, file_key |-> r.fileKey,
     file_name |-> r.fileName, mime_type |-> r.mimeType, size_bytes |-> r.sizeBytes,
     status |-> IF r.resourceType = "doc" THEN "linked" ELSE "pending",
     storage_path |-> NoPath, error |-> NULL, attempts |-> 0])

(* one VALUES row of the INSERT ... ON DUPLICATE KEY UPDATE of             *)
(* upsertResources, on UNIQUE KEY (tenant_key, message_id, file_key)       *)
UpsertOne(table, tenantKey, r) ==
  LET hit == RowMatch(table, tenantKey, r.messageId, r.fileKey) IN
  IF hit = {}
    THEN Append(table,
           [id |-> Len(table) + 1, tenant_key |-> tenantKey, message_id |-> r.messageId,
            chat_id |-> r.chatId, resource_type |-> r.resourceType, file_key |-> r.fileKey,
            file_name |-> r.fileName, mime_type |-> r.mimeType, size_bytes |-> r.sizeBytes,
            status |-> IF r.resourceType = "doc" THEN "linked" ELSE "pending",
            storage_path |-> NoPath, error |-> NULL, attempts |-> 0])
    ELSE LET i == CHOOSE j \in hit : TRUE IN
         [table EXCEPT ![i].file_name = r.fileName,
                       ![i].mime_type = r.mimeType,
                       ![i].size_bytes = r.sizeBytes]

RECURSIVE upsertResources(_, _, _)
upsertResources(table, tenantKey, rs) ==
  IF rs = <<>> THEN table
  ELSE upsertResources(UpsertOne(table, tenantKey, Head(rs)), tenantKey, Tail(rs))

Take(s, n) == IF Len(s) <= n THEN s ELSE SubSeq(s, 1, n)

ToResourceRow(row) ==
  [id |-> row.id, messageId |-> row.message_id, resourceType |-> row.resource_type,
   fileKey |-> row.file_key, fileName |-> row.file_name, sizeBytes |-> row.size_bytes,
   attempts |-> row.attempts]

SelectRows(table, tenantKey, statuses, ceiling) ==
  SelectSeq(table, LAMBDA row : /\ row.tenant_key = tenantKey
                                /\ row.status \in statuses
                                /\ row.attempts < ceiling)

(* variant: the SELECT without its status filter                          *)
fetchPendingResourcesAnyStatus(table, tenantKey) ==
  LET rows == Take(SelectRows(table, tenantKey,
                              {"pending", "failed", "ready", "too_large"}, MAX_ATTEMPTS),
                   DOWNLOAD_BATCH_SIZE)
  IN [n \in 1..Len(rows) |-> ToResourceRow(rows[n])]

(* variant: the SELECT with a ceiling above MAX_ATTEMPTS                   *)
fetchPendingResourcesNoCeiling(table, tenantKey) ==
  LET rows == Take(SelectRows(table, tenantKey, {"pending", "failed"}, MAX_ATTEMPTS + 2),
                   DOWNLOAD_BATCH_SIZE)
  IN [n \in 1..Len(rows) |-> ToResourceRow(rows[n])]

(* variant: the SELECT takes linked rows as well                           *)
fetchPendingResourcesLinkedToo(table, tenantKey) ==
  LET rows == Take(SelectRows(table, tenantKey, {"pending", "failed", "linked"}, MAX_ATTEMPTS),
                   DOWNLOAD_BATCH_SIZE)
  IN [n \in 1..Len(rows) |-> ToResourceRow(rows[n])]

(* SELECT ... WHERE tenant_key = ? AND status IN ("pending", "failed")     *)
(* AND attempts < ? ORDER BY created_at ASC LIMIT ?                        *)
fetchPendingResources(table, tenantKey) ==
  LET rows == Take(SelectRows(table, tenantKey, {"pending", "failed"}, MAX_ATTEMPTS),
                   DOWNLOAD_BATCH_SIZE)
  IN [n \in 1..Len(rows) |-> ToResourceRow(rows[n])]

(* variant: the UPDATE leaves the attempts column alone                     *)
updateResourceStatusKeepsAttempts(table, tenantKey, id, status, storagePath, error, attempts) ==
  [i \in 1..Len(table) |->
     IF table[i].tenant_key = tenantKey /\ table[i].id = id
       THEN [table[i] EXCEPT !.status = status,
                             !.storage_path = storagePath,
                             !.error = error]
       ELSE table[i]]

(* variant: the UPDATE writes the attempts parameter without COALESCE       *)
updateResourceStatusWithoutCoalesce(table, tenantKey, id, status, storagePath, error, attempts) ==
  [i \in 1..Len(table) |->
     IF table[i].tenant_key = tenantKey /\ table[i].id = id
       THEN [table[i] EXCEPT !.status = status,
                             !.storage_path = storagePath,
                             !.error = error,
                             !.attempts = IF attempts = NoNumber THEN 0 ELSE attempts]
       ELSE table[i]]

(* UPDATE ... SET status, storage_path, storage_url, error,                *)
(* attempts = COALESCE(?, attempts) WHERE tenant_key = ? AND id = ?        *)
updateResourceStatus(table, tenantKey, id, status, storagePath, error, attempts) ==
  [i \in 1..Len(table) |->
     IF table[i].tenant_key = tenantKey /\ table[i].id = id
       THEN [table[i] EXCEPT !.status = status,
                             !.storage_path = storagePath,
                             !.error = error,
                             !.attempts = IF attempts = NoNumber THEN @ ELSE attempts]
       ELSE table[i]]

(* variant: the declared size is not looked at                             *)
DeclaredTooLargeNever(resource, maxBytes) == FALSE

(* resource.sizeBytes && resource.sizeBytes > params.maxBytes              *)
DeclaredTooLarge(resource, maxBytes) ==
  resource.sizeBytes # NoNumber /\ resource.sizeBytes # 0 /\ resource.sizeBytes > maxBytes

(* contentLength && contentLength > params.maxBytes                        *)
ReportedTooLarge(contentLength, maxBytes) ==
  contentLength # NoNumber /\ contentLength # 0 /\ contentLength > maxBytes

(* the content-length values a transfer reports (NoNumber: no header)      *)
ContentLengths == {NoNumber, SizeOver}

IdleLoop == [pc |-> "idle", pending |-> <<>>, i |-> 0, contentLength |-> NoNumber]

ResInit ==
  /\ resources = <<>>
  /\ downloadInFlight = {}
  /\ loops = [a \in ResAccounts |-> IdleLoop]
  /\ regs = {}
  /\ regCount = 0
  /\ transferCalls = {}
  /\ bodyWrites = {}
  /\ extractionSignals = {}

(* variant: scheduleResourceDownloads without its guard                    *)
ScheduledLoopsUnguarded(account) ==
  [loops EXCEPT ![account] = [IdleLoop EXCEPT !.pc = "fetch"]]

(* scheduleResourceDownloads: the guard, the marker and setImmediate       *)
ScheduledLoops(account) ==
  IF account \in downloadInFlight THEN loops
  ELSE [loops EXCEPT ![account] = [IdleLoop EXCEPT !.pc = "fetch"]]

(* enqueueLarkMessageResources up to the call of upsertResources           *)
enqueueLarkMessageResources(account, ev) ==
  /\ regCount < MaxRegs
  /\ extractResources(ev) # <<>>
  /\ regs' = regs \cup {[account |-> account,
                         tenantKey |-> resolveLarkTenantKey(account, ev.tenant_key),
                         resources |-> extractResources(ev), st |-> "upsert"]}
  /\ regCount' = regCount + 1
  /\ UNCHANGED <<resources, downloadInFlight, loops, transferCalls, bodyWrites, extractionSignals>>
  /\ UNCHANGED wqVars
  /\ UNCHANGED dirVars
  /\ UNCHANGED extVars

(* the store executes the INSERT of upsertResources                        *)
RegUpsert(r) ==
  /\ r.st = "upsert"
  /\ resources' = upsertResources(resources, r.tenantKey, r.resources)
  /\ regs' = (regs \ {r}) \cup {[r EXCEPT !.st = "then"]}
  /\ UNCHANGED <<downloadInFlight, loops, regCount, transferCalls, bodyWrites, extractionSignals>>
  /\ UNCHANGED wqVars
  /\ UNCHANGED dirVars
  /\ UNCHANGED extVars

(* .then(() => scheduleResourceDownloads(...)) of the registration         *)
RegThen(r) ==
  /\ r.st = "then"
  /\ regs' = regs \ {r}
  /\ loops' = ScheduledLoops(r.account)
  /\ downloadInFlight' = downloadInFlight \cup {r.account}
  /\ UNCHANGED <<resources, regCount, transferCalls, bodyWrites, extractionSignals>>
  /\ UNCHANGED wqVars
  /\ UNCHANGED dirVars
  /\ UNCHANGED extVars

(* processResourceQueue: the store executes the SELECT of                  *)
(* fetchPendingResources; a non-empty batch is worked through              *)
LoopFetch(a) ==
  /\ loops[a].pc = "fetch"
  /\ LET rows == fetchPendingResources(resources, resolveLarkTenantKey(a, NULL))
     IN loops' = [loops EXCEPT ![a].pc = IF rows # <<>> THEN "mark" ELSE "fetched",
                                ![a].pending = rows,
                                ![a].i = IF rows # <<>> THEN 1 ELSE 0]
  /\ UNCHANGED <<resources, downloadInFlight, regs, regCount, transferCalls, bodyWrites,
                 extractionSignals>>
  /\ UNCHANGED wqVars
  /\ UNCHANGED dirVars
  /\ UNCHANGED extVars

(* an empty batch ends the loop; .finally deletes the marker               *)
LoopExit(a) ==
  /\ loops[a].pc = "fetched"
  /\ loops[a].pending = <<>>
  /\ loops' = [loops EXCEPT ![a] = IdleLoop]
  /\ downloadInFlight' = downloadInFlight \ {a}
  /\ UNCHANGED <<resources, regs, regCount, transferCalls, bodyWrites, extractionSignals>>
  /\ UNCHANGED wqVars
  /\ UNCHANGED dirVars
  /\ UNCHANGED extVars

Current(a) == loops[a].pending[loops[a].i]

(* the for loop moves to the next resource, or the batch is fetched again  *)
Advance(a) ==
  IF loops[a].i < Len(loops[a].pending)
    THEN [loops EXCEPT ![a].pc = "mark", ![a].i = @ + 1, ![a].contentLength = NoNumber]
    ELSE [loops EXCEPT ![a] = [IdleLoop EXCEPT !.pc = "fetch"]]

(* updateResourceStatus(status: "downloading", attempts: attempts + 1);    *)
(* downloadResource then returns at once for a doc resource and otherwise  *)
(* creates the resource directory and the message directory                *)
LoopMark(a) ==
  /\ loops[a].pc = "mark"
  /\ resources' = updateResourceStatus(resources, resolveLarkTenantKey(a, NULL), Current(a).id,
                                       "downloading", NoPath, NULL, Current(a).attempts + 1)
  /\ loops' = IF Current(a).resourceType = "doc" THEN Advance(a)
              ELSE [loops EXCEPT ![a].pc = "download"]
  /\ UNCHANGED <<downloadInFlight, regs, regCount, transferCalls, bodyWrites, extractionSignals>>
  /\ UNCHANGED wqVars
  /\ UNCHANGED dirVars
  /\ UNCHANGED extVars

(* downloadResource: a declared size above the limit ends as too_large     *)
DownloadDeclaredTooLarge(a) ==
  /\ loops[a].pc = "download"
  /\ DeclaredTooLarge(Current(a), maxBytesOf(a))
  /\ resources' = updateResourceStatus(resources, resolveLarkTenantKey(a, NULL), Current(a).id,
                                       "too_large", NoPath, "size exceeds limit", NoNumber)
  /\ loops' = Advance(a)
  /\ UNCHANGED <<downloadInFlight, regs, regCount, transferCalls, bodyWrites, extractionSignals>>
  /\ UNCHANGED wqVars
  /\ UNCHANGED dirVars
  /\ UNCHANGED extVars

(* downloadResource: client.im.messageResource.get is called               *)
DownloadRequest(a) ==
  /\ loops[a].pc = "download"
  /\ ~DeclaredTooLarge(Current(a), maxBytesOf(a))
  /\ transferCalls' = transferCalls \cup {[id |-> Current(a).id, sizeBytes |-> Current(a).sizeBytes]}
  /\ loops' = [loops EXCEPT ![a].pc = "transfer"]
  /\ UNCHANGED <<resources, downloadInFlight, regs, regCount, bodyWrites, extractionSignals>>
  /\ UNCHANGED wqVars
  /\ UNCHANGED dirVars
  /\ UNCHANGED extVars

(* variant: the catch of the loop writes failed and starts the count anew  *)
DownloadErrorResetsAttempts(a) ==
  /\ loops[a].pc = "transfer"
  /\ resources' = updateResourceStatus(resources, resolveLarkTenantKey(a, NULL), Current(a).id,
                                       "failed", NoPath, "transfer error", 0)
  /\ loops' = Advance(a)
  /\ UNCHANGED <<downloadInFlight, regs, regCount, transferCalls, bodyWrites, extractionSignals>>
  /\ UNCHANGED wqVars
  /\ UNCHANGED dirVars
  /\ UNCHANGED extVars

(* the transfer throws: the catch of the loop marks failed                 *)
DownloadError(a) ==
  /\ loops[a].pc = "transfer"
  /\ resources' = updateResourceStatus(resources, resolveLarkTenantKey(a, NULL), Current(a).id,
                                       "failed", NoPath, "transfer error", NoNumber)
  /\ loops' = Advance(a)
  /\ UNCHANGED <<downloadInFlight, regs, regCount, transferCalls, bodyWrites, extractionSignals>>
  /\ UNCHANGED wqVars
  /\ UNCHANGED dirVars
  /\ UNCHANGED extVars

(* the transfer answers; the content-length header is read                 *)
DownloadResponse(a, contentLength) ==
  /\ loops[a].pc = "transfer"
  /\ loops' = [loops EXCEPT ![a].pc = "response", ![a].contentLength = contentLength]
  /\ UNCHANGED <<resources, downloadInFlight, regs, regCount, transferCalls, bodyWrites,
                 extractionSignals>>
  /\ UNCHANGED wqVars
  /\ UNCHANGED dirVars
  /\ UNCHANGED extVars

(* the reported content-length is above the limit: too_large, no writeFile *)
DownloadReportedTooLarge(a) ==
  /\ loops[a].pc = "response"
  /\ ReportedTooLarge(loops[a].contentLength, maxBytesOf(a))
  /\ resources' = updateResourceStatus(resources, resolveLarkTenantKey(a, NULL), Current(a).id,
                                       "too_large", NoPath, "size exceeds limit", NoNumber)
  /\ loops' = Advance(a)
  /\ UNCHANGED <<downloadInFlight, regs, regCount, transferCalls, bodyWrites, extractionSignals>>
  /\ UNCHANGED wqVars
  /\ UNCHANGED dirVars
  /\ UNCHANGED extVars

(* an extraction loop that is not running                                  *)
IdleExtLoop == [pc |-> "idle", pending |-> <<>>, i |-> 0, text |-> ""]

(* variant: one marker for all accounts                                    *)
ScheduledExtractionGlobal(account) ==
  IF extractionInFlight # {} THEN extLoops
  ELSE [extLoops EXCEPT ![account] = [IdleExtLoop EXCEPT !.pc = "select"]]

(* scheduleLarkExtraction: the guard, the marker and setImmediate          *)
ScheduledExtraction(account) ==
  IF account \in extractionInFlight THEN extLoops
  ELSE [extLoops EXCEPT ![account] = [IdleExtLoop EXCEPT !.pc = "select"]]

StoragePath(resource) ==
  <<resource.messageId, sanitizeFileName(Coalesce(resource.fileName, resource.fileKey))>>

(* variant: scheduleLarkExtraction is called before the status is written  *)
DownloadReadySignalsFirst(a) ==
  /\ loops[a].pc = "response"
  /\ ~ReportedTooLarge(loops[a].contentLength, maxBytesOf(a))
  /\ bodyWrites' = bodyWrites \cup {Current(a).id}
  /\ extractionSignals' = extractionSignals \cup {Current(a).id}
  /\ loops' = Advance(a)
  /\ extLoops' = ScheduledExtraction(a)
  /\ extractionInFlight' = extractionInFlight \cup {a}
  /\ UNCHANGED <<resources, downloadInFlight, regs, regCount, transferCalls>>
  /\ UNCHANGED wqVars
  /\ UNCHANGED dirVars
  /\ UNCHANGED <<extractions, capabilityCalls, memoryCalls, memoryItems, serviceStarted>>

(* response.writeFile, status ready with the path, scheduleLarkExtraction  *)
DownloadReady(a) ==
  /\ loops[a].pc = "response"
  /\ ~ReportedTooLarge(loops[a].contentLength, maxBytesOf(a))
  /\ bodyWrites' = bodyWrites \cup {Current(a).id}
  /\ resources' = updateResourceStatus(resources, resolveLarkTenantKey(a, NULL), Current(a).id,
                                       "ready", StoragePath(Current(a)), NULL, NoNumber)
  /\ extractionSignals' = extractionSignals \cup {Current(a).id}
  /\ loops' = Advance(a)
  /\ extLoops' = ScheduledExtraction(a)
  /\ extractionInFlight' = extractionInFlight \cup {a}
  /\ UNCHANGED <<downloadInFlight, regs, regCount, transferCalls>>
  /\ UNCHANGED wqVars
  /\ UNCHANGED dirVars
  /\ UNCHANGED <<extractions, capabilityCalls, memoryCalls, memoryItems, serviceStarted>>

(* response.writeFile throws part-way: the catch of the loop marks failed  *)
DownloadWriteError(a) ==
  /\ loops[a].pc = "response"
  /\ ~ReportedTooLarge(loops[a].contentLength, maxBytesOf(a))
  /\ bodyWrites' = bodyWrites \cup {Current(a).id}
  /\ resources' = updateResourceStatus(resources, resolveLarkTenantKey(a, NULL), Current(a).id,
                                       "failed", NoPath, "write error", NoNumber)
  /\ loops' = Advance(a)
  /\ UNCHANGED <<downloadInFlight, regs, regCount, transferCalls, extractionSignals>>
  /\ UNCHANGED wqVars
  /\ UNCHANGED dirVars
  /\ UNCHANGED extVars

ResNext ==
  \/ \E a \in ResAccounts, e \in ResEvents :
       e \in ResEventsOf(a) /\ enqueueLarkMessageResources(a, e)
  \/ \E r \in regs : RegUpsert(r)
  \/ \E r \in regs : RegThen(r)
  \/ \E a \in ResAccounts : LoopFetch(a)
  \/ \E a \in ResAccounts : LoopExit(a)
  \/ \E a \in ResAccounts : LoopMark(a)
  \/ \E a \in ResAccounts : DownloadDeclaredTooLarge(a)
  \/ \E a \in ResAccounts : DownloadRequest(a)
  \/ \E a \in ResAccounts : DownloadError(a)
  \/ \E a \in ResAccounts, n \in ContentLengths : DownloadResponse(a, n)
  \/ \E a \in ResAccounts : DownloadReportedTooLarge(a)
  \/ \E a \in ResAccounts : DownloadReady(a)
  \/ \E a \in ResAccounts : DownloadWriteError(a)

(***************************************************************************)
(* The extraction lifecycle (extraction.ts).                               *)
(***************************************************************************)
EXTRACTION_BATCH_SIZE == 5

(* extraction?.asr?.apiKey?.trim() || process.env.OPENAI_API_KEY: account  *)
(* a2 is configured with a key, the environment variable is not set        *)
AsrApiKey(account) == IF account = "a2" THEN "sk" ELSE NULL

(* the texts a capability returns: nothing, white space, words             *)
Texts == {"", " ", "txt"}

(* String.prototype.trim                                                   *)
Trim(text) == IF text = " " THEN "" ELSE text

(* fileName.toLowerCase().endsWith(".docx")                                *)
EndsWithDocx(fileName) == fileName # NULL /\ toLowerCase(fileName) = "r.docx"

(* the inbound events of the extraction model: a voice clip with an image; *)
(* a text file with a linked doc; a video with its cover image; a word     *)
(* document; a voice clip                                                  *)
ExtEvents ==
  { ResEvent("m1", "audio", "img1", "f1", NULL, NULL, NULL, NoNumber, NULL),
    ResEvent("m2", "file", NULL, "f2", "d1", "n.txt", NULL, NoNumber, NULL),
    ResEvent("m3", "media", "img3", "f3", NULL, "v.mp4", NULL, NoNumber, NULL),
    ResEvent("m4", "file", NULL, "f4", NULL, "r.docx", NULL, NoNumber, NULL),
    ResEvent("m5", "audio", NULL, "f1", NULL, NULL, NULL, NoNumber, NULL) }

(* the events each account receives                                        *)
ExtEventsOf(account) ==
  IF account = "a2" THEN {e \in ExtEvents : e.message_id = "m5"}
  ELSE {e \in ExtEvents : e.message_id # "m5"}

(* the events of the model of the scheduling guards: one attachment each   *)
GuardEventsOf(account) ==
  IF account = "a2" THEN {e \in ExtEvents : e.message_id = "m5"}
  ELSE {e \in ExtEvents : e.message_id = "m4"}

ExtIndex(table, tenantKey, resourceId) ==
  IF \E i \in 1..Len(table) : table[i].tenant_key = tenantKey /\ table[i].resource_id = resourceId
    THEN CHOOSE i \in 1..Len(table) :
           table[i].tenant_key = tenantKey /\ table[i].resource_id = resourceId
    ELSE 0

(* variant: the selection ignores the extraction row                       *)
listPendingExtractionsAnyRow(resTable, extTable, tenantKey) ==
  LET rows == Take(SelectSeq(resTable, LAMBDA r :
                     r.tenant_key = tenantKey /\ r.status = "ready"),
                   EXTRACTION_BATCH_SIZE)
      tasksOf == [n \in 1..Len(rows) |->
                    [resourceId |-> rows[n].id, messageId |-> rows[n].message_id,
                     resourceType |-> rows[n].resource_type, storagePath |-> rows[n].storage_path,
                     fileName |-> rows[n].file_name]]
  IN SelectSeq(tasksOf, LAMBDA t : t.resourceId # 0 /\ t.storagePath # NoPath)

(* SELECT ... FROM message_resource r LEFT JOIN content_extraction e ...    *)
(* WHERE r.tenant_key = ? AND r.status = "ready" AND (e.id IS NULL OR       *)
(* e.status = "failed") ... LIMIT ?, then the filter on resourceId and     *)
(* storagePath; the batch is taken in id order                             *)
listPendingExtractions(resTable, extTable, tenantKey) ==
  LET rows == Take(SelectSeq(resTable, LAMBDA r :
                     /\ r.tenant_key = tenantKey
                     /\ r.status = "ready"
                     /\ \/ ExtIndex(extTable, tenantKey, r.id) = 0
                        \/ extTable[ExtIndex(extTable, tenantKey, r.id)].status = "failed"),
                   EXTRACTION_BATCH_SIZE)
      tasksOf == [n \in 1..Len(rows) |->
                    [resourceId |-> rows[n].id, messageId |-> rows[n].message_id,
                     resourceType |-> rows[n].resource_type, storagePath |-> rows[n].storage_path,
                     fileName |-> rows[n].file_name]]
  IN SelectSeq(tasksOf, LAMBDA t : t.resourceId # 0 /\ t.storagePath # NoPath)

(* INSERT INTO content_extraction ... ON DUPLICATE KEY UPDATE language,     *)
(* text, model, status, error                                              *)
upsertExtraction(table, tenantKey, messageId, resourceId, resourceType, status, text, model, error) ==
  LET i == ExtIndex(table, tenantKey, resourceId) IN
  IF i = 0
    THEN Append(table, [id |-> Len(table) + 1, tenant_key |-> tenantKey, message_id |-> messageId,
                        resource_id |-> resourceId, resource_type |-> resourceType,
                        text |-> text, model |-> model, status |-> status, error |-> error])
    ELSE [table EXCEPT ![i].text = text, ![i].model = model, ![i].status = status,
                       ![i].error = error]

ExtInit ==
  /\ extractions = <<>>
  /\ extractionInFlight = {}
  /\ extLoops = [a \in ResAccounts |-> IdleExtLoop]
  /\ capabilityCalls = {}
  /\ memoryCalls = {}
  /\ memoryItems = {}
  /\ serviceStarted = {}

ExtCurrent(a) == extLoops[a].pending[extLoops[a].i]

(* the for loop moves to the next task, or the batch is selected again     *)
ExtAdvance(a) ==
  IF extLoops[a].i < Len(extLoops[a].pending)
    THEN [extLoops EXCEPT ![a].pc = "mark", ![a].i = @ + 1, ![a].text = ""]
    ELSE [extLoops EXCEPT ![a] = [IdleExtLoop EXCEPT !.pc = "select"]]

(* processExtractionTask up to its first await: the capability to call,    *)
(* the missing key, or the return of a kind that is not handled            *)
Dispatch(account, task) ==
  LET resourceType == toLowerCase(task.resourceType) IN
  IF resourceType = "image" THEN "ocr"
  ELSE IF resourceType = "audio" THEN (IF AsrApiKey(account) = NULL THEN "nokey" ELSE "asr")
  ELSE IF resourceType = "file" THEN (IF EndsWithDocx(task.fileName) THEN "docx" ELSE "return")
  ELSE "return"

(* the model tag each capability reports                                   *)
ModelTag(capability) ==
  IF capability = "ocr" THEN "tesseract:eng"
  ELSE IF capability = "asr" THEN "gpt-4o-transcribe"
  ELSE "docx"

(* the start of the directory sync service calls scheduleLarkExtraction    *)
ServiceStart(a) ==
  /\ a \notin serviceStarted
  /\ serviceStarted' = serviceStarted \cup {a}
  /\ extLoops' = ScheduledExtraction(a)
  /\ extractionInFlight' = extractionInFlight \cup {a}
  /\ UNCHANGED <<extractions, capabilityCalls, memoryCalls, memoryItems>>
  /\ UNCHANGED wqVars
  /\ UNCHANGED dirVars
  /\ UNCHANGED resVars

(* processExtractionQueue: the store executes the SELECT of                *)
(* listPendingExtractions; a non-empty batch is worked through             *)
ExtSelect(a) ==
  /\ extLoops[a].pc = "select"
  /\ LET rows == listPendingExtractions(resources, extractions, resolveLarkTenantKey(a, NULL))
     IN extLoops' = [extLoops EXCEPT ![a].pc = IF rows # <<>> THEN "mark" ELSE "selected",
                                      ![a].pending = rows,
                                      ![a].i = IF rows # <<>> THEN 1 ELSE 0]
  /\ UNCHANGED <<extractions, extractionInFlight, capabilityCalls, memoryCalls, memoryItems,
                 serviceStarted>>
  /\ UNCHANGED wqVars
  /\ UNCHANGED dirVars
  /\ UNCHANGED resVars

(* variant: the marker is deleted only when the loop ends without error   *)
ExtSelectErrorKeepsMarker(a) ==
  /\ extLoops[a].pc = "select"
  /\ extLoops' = [extLoops EXCEPT ![a] = IdleExtLoop]
  /\ UNCHANGED <<extractions, extractionInFlight, capabilityCalls, memoryCalls, memoryItems,
                 serviceStarted>>
  /\ UNCHANGED wqVars
  /\ UNCHANGED dirVars
  /\ UNCHANGED resVars

(* the SELECT throws: the error escapes the loop, .catch logs it and       *)
(* .finally deletes the marker                                             *)
ExtSelectError(a) ==
  /\ extLoops[a].pc = "select"
  /\ extLoops' = [extLoops EXCEPT ![a] = IdleExtLoop]
  /\ extractionInFlight' = extractionInFlight \ {a}
  /\ UNCHANGED <<extractions, capabilityCalls, memoryCalls, memoryItems, serviceStarted>>
  /\ UNCHANGED wqVars
  /\ UNCHANGED dirVars
  /\ UNCHANGED resVars

(* an empty batch ends the loop; .finally deletes the marker               *)
ExtExit(a) ==
  /\ extLoops[a].pc = "selected"
  /\ extLoops' = [extLoops EXCEPT ![a] = IdleExtLoop]
  /\ extractionInFlight' = extractionInFlight \ {a}
  /\ UNCHANGED <<extractions, capabilityCalls, memoryCalls, memoryItems, serviceStarted>>
  /\ UNCHANGED wqVars
  /\ UNCHANGED dirVars
  /\ UNCHANGED resVars

(* upsertExtraction(status: "processing"), then processExtractionTask up   *)
(* to the call of its capability                                           *)
ExtMark(a) ==
  LET task == ExtCurrent(a)
      next == Dispatch(a, task) IN
  /\ extLoops[a].pc = "mark"
  /\ extractions' = upsertExtraction(extractions, resolveLarkTenantKey(a, NULL), task.messageId,
                                     task.resourceId, task.resourceType, "processing",
                                     NULL, NULL, NULL)
  /\ extLoops' = IF next = "return" THEN ExtAdvance(a) ELSE [extLoops EXCEPT ![a].pc = next]
  /\ capabilityCalls' = IF next \in {"ocr", "asr", "docx"}
                          THEN capabilityCalls \cup {<<next, task.resourceId>>}
                          ELSE capabilityCalls
  /\ UNCHANGED <<extractionInFlight, memoryCalls, memoryItems, serviceStarted>>
  /\ UNCHANGED wqVars
  /\ UNCHANGED dirVars
  /\ UNCHANGED resVars

(* no API key: upsertExtraction(status: "failed", "missing OpenAI API key") *)
ExtMissingKey(a) ==
  LET task == ExtCurrent(a) IN
  /\ extLoops[a].pc = "nokey"
  /\ extractions' = upsertExtraction(extractions, resolveLarkTenantKey(a, NULL), task.messageId,
                                     task.resourceId, "audio", "failed",
                                     NULL, NULL, "missing OpenAI API key")
  /\ extLoops' = ExtAdvance(a)
  /\ UNCHANGED <<extractionInFlight, capabilityCalls, memoryCalls, memoryItems, serviceStarted>>
  /\ UNCHANGED wqVars
  /\ UNCHANGED dirVars
  /\ UNCHANGED resVars

(* variant: the returned text is stored as ready and recorded, empty or not *)
ExtResultAlwaysReady(a, text) ==
  LET task == ExtCurrent(a)
      capability == extLoops[a].pc IN
  /\ capability \in {"ocr", "asr", "docx"}
  /\ extractions' = upsertExtraction(extractions, resolveLarkTenantKey(a, NULL), task.messageId,
                                     task.resourceId,
                                     IF capability = "docx" THEN "docx"
                                                            ELSE toLowerCase(task.resourceType),
                                     "ready", text, ModelTag(capability), NULL)
  /\ extLoops' = [extLoops EXCEPT ![a].pc = "memory", ![a].text = text]
  /\ UNCHANGED <<extractionInFlight, capabilityCalls, memoryCalls, memoryItems, serviceStarted>>
  /\ UNCHANGED wqVars
  /\ UNCHANGED dirVars
  /\ UNCHANGED resVars

(* the capability returns a text: status ready when it is non-empty, else  *)
(* empty; a non-empty text goes on to recordLarkMemoryFromExtraction       *)
ExtResult(a, text) ==
  LET task == ExtCurrent(a)
      capability == extLoops[a].pc IN
  /\ capability \in {"ocr", "asr", "docx"}
  /\ extractions' = upsertExtraction(extractions, resolveLarkTenantKey(a, NULL), task.messageId,
                                     task.resourceId,
                                     IF capability = "docx" THEN "docx"
                                                            ELSE toLowerCase(task.resourceType),
                                     IF text # "" THEN "ready" ELSE "empty",
                                     text, ModelTag(capability), NULL)
  /\ extLoops' = IF text # "" THEN [extLoops EXCEPT ![a].pc = "memory", ![a].text = text]
                 ELSE ExtAdvance(a)
  /\ UNCHANGED <<extractionInFlight, capabilityCalls, memoryCalls, memoryItems, serviceStarted>>
  /\ UNCHANGED wqVars
  /\ UNCHANGED dirVars
  /\ UNCHANGED resVars

(* the capability throws: the catch of the loop records failed             *)
ExtError(a) ==
  LET task == ExtCurrent(a) IN
  /\ extLoops[a].pc \in {"ocr", "asr", "docx"}
  /\ extractions' = upsertExtraction(extractions, resolveLarkTenantKey(a, NULL), task.messageId,
                                     task.resourceId, task.resourceType, "failed",
                                     NULL, NULL, "capability error")
  /\ extLoops' = ExtAdvance(a)
  /\ UNCHANGED <<extractionInFlight, capabilityCalls, memoryCalls, memoryItems, serviceStarted>>
  /\ UNCHANGED wqVars
  /\ UNCHANGED dirVars
  /\ UNCHANGED resVars

(* the capability throws and the upsert in the catch throws as well: the   *)
(* error escapes the loop, .catch logs it and .finally deletes the marker  *)
ExtErrorEscapes(a) ==
  /\ extLoops[a].pc \in {"ocr", "asr", "docx"}
  /\ extLoops' = [extLoops EXCEPT ![a] = IdleExtLoop]
  /\ extractionInFlight' = extractionInFlight \ {a}
  /\ UNCHANGED <<extractions, capabilityCalls, memoryCalls, memoryItems, serviceStarted>>
  /\ UNCHANGED wqVars
  /\ UNCHANGED dirVars
  /\ UNCHANGED resVars

(* recordLarkMemoryFromExtraction: the trimmed text, the message row of    *)
(* the message table, insertMemoryItems                                    *)
recordLarkMemoryFromExtraction(items, account, tenantKey, messageId, content) ==
  LET text == Trim(content)
      table == msgTable[resolveLarkMySqlContext(account)]
      i == RowIndex(table, messageId) IN
  IF text = "" \/ i = 0 THEN items
  ELSE items \cup {[tenant_key |-> tenantKey, message_id |-> messageId,
                    chat_id |-> table[i].chat_id, content |-> text]}

ExtMemory(a) ==
  LET task == ExtCurrent(a) IN
  /\ extLoops[a].pc = "memory"
  /\ memoryCalls' = memoryCalls \cup {task.resourceId}
  /\ memoryItems' = recordLarkMemoryFromExtraction(memoryItems, a, resolveLarkTenantKey(a, NULL),
                                                   task.messageId, extLoops[a].text)
  /\ extLoops' = ExtAdvance(a)
  /\ UNCHANGED <<extractions, extractionInFlight, capabilityCalls, serviceStarted>>
  /\ UNCHANGED wqVars
  /\ UNCHANGED dirVars
  /\ UNCHANGED resVars

(* a store statement of recordLarkMemoryFromExtraction throws after the    *)
(* ready upsert: processExtractionTask rejects and the catch of the loop   *)
(* upserts failed, with no text and no model                               *)
ExtMemoryError(a) ==
  LET task == ExtCurrent(a) IN
  /\ extLoops[a].pc = "memory"
  /\ Trim(extLoops[a].text) # ""
  /\ memoryCalls' = memoryCalls \cup {task.resourceId}
  /\ extractions' = upsertExtraction(extractions, resolveLarkTenantKey(a, NULL), task.messageId,
                                     task.resourceId, task.resourceType, "failed",
                                     NULL, NULL, "memory error")
  /\ extLoops' = ExtAdvance(a)
  /\ UNCHANGED <<extractionInFlight, capabilityCalls, memoryItems, serviceStarted>>
  /\ UNCHANGED wqVars
  /\ UNCHANGED dirVars
  /\ UNCHANGED resVars

(* the SELECT of fetchPendingResources throws: the error escapes the       *)
(* download loop, .catch logs it and .finally deletes the marker           *)
LoopFetchError(a) ==
  /\ loops[a].pc = "fetch"
  /\ loops' = [loops EXCEPT ![a] = IdleLoop]
  /\ downloadInFlight' = downloadInFlight \ {a}
  /\ UNCHANGED <<resources, regs, regCount, transferCalls, bodyWrites, extractionSignals>>
  /\ UNCHANGED wqVars
  /\ UNCHANGED dirVars
  /\ UNCHANGED extVars

(* the extraction worker behind the downloads of one account               *)
ExtNext ==
  \/ \E e \in ExtEvents : e \in ExtEventsOf("a1") /\ enqueueLarkMessageResources("a1", e)
  \/ \E r \in regs : RegUpsert(r)
  \/ \E r \in regs : RegThen(r)
  \/ \E a \in ResAccounts : LoopFetch(a)
  \/ \E a \in ResAccounts : LoopExit(a)
  \/ \E a \in ResAccounts : LoopMark(a)
  \/ \E a \in ResAccounts : DownloadRequest(a)
  \/ \E a \in ResAccounts : DownloadResponse(a, NoNumber)
  \/ \E a \in ResAccounts : DownloadReady(a)
  \/ \E a \in ResAccounts : ExtSelect(a)
  \/ \E a \in ResAccounts : ExtExit(a)
  \/ \E a \in ResAccounts : ExtMark(a)
  \/ \E a \in ResAccounts : ExtMissingKey(a)
  \/ \E a \in ResAccounts, text \in Texts \ {" "} : ExtResult(a, text)
  \/ \E a \in ResAccounts : ExtError(a)
  \/ \E a \in ResAccounts : ExtMemory(a)

(* the transfer throws and the UPDATE in the catch of the download loop    *)
(* throws as well: the error escapes the loop, .catch logs it and .finally *)
(* deletes the marker; the row keeps what the mark wrote                   *)
DownloadErrorEscapes(a) ==
  /\ loops[a].pc = "transfer"
  /\ loops' = [loops EXCEPT ![a] = IdleLoop]
  /\ downloadInFlight' = downloadInFlight \ {a}
  /\ UNCHANGED <<resources, regs, regCount, transferCalls, bodyWrites, extractionSignals>>
  /\ UNCHANGED wqVars
  /\ UNCHANGED dirVars
  /\ UNCHANGED extVars

(* the scheduling guards of both subsystems, two accounts, with the errors *)
(* that escape a loop                                                      *)
GuardNext ==
  \/ \E a \in ResAccounts, e \in ExtEvents :
       e \in GuardEventsOf(a) /\ enqueueLarkMessageResources(a, e)
  \/ \E r \in regs : RegUpsert(r)
  \/ \E r \in regs : RegThen(r)
  \/ \E a \in ResAccounts : LoopFetch(a)
  \/ \E a \in ResAccounts : LoopFetchError(a)
  \/ \E a \in ResAccounts : LoopExit(a)
  \/ \E a \in ResAccounts : LoopMark(a)
  \/ \E a \in ResAccounts : DownloadRequest(a)
  \/ \E a \in ResAccounts : DownloadErrorEscapes(a)
  \/ \E a \in ResAccounts : DownloadResponse(a, NoNumber)
  \/ \E a \in ResAccounts : DownloadReady(a)
  \/ \E a \in ResAccounts : ServiceStart(a)
  \/ \E a \in ResAccounts : ExtSelect(a)
  \/ \E a \in ResAccounts : ExtSelectError(a)
  \/ \E a \in ResAccounts : ExtExit(a)
  \/ \E a \in ResAccounts : ExtMark(a)
  \/ \E a \in ResAccounts : ExtResult(a, "")
  \/ \E a \in ResAccounts : ExtErrorEscapes(a)

(* the event handed to the persist task: the same message with its text   *)
PersistEvent(ev) ==
  [message_id |-> ev.message_id, content |-> "c1", chat_id |-> ev.chat_id,
   tenant_key |-> ev.tenant_key]

(* handleLarkMessageEvent: enqueueLarkMessagePersist, then                  *)
(* enqueueLarkMessageResources, for the same event                          *)
handleLarkMessageEvent(account, ev) ==
  LET key == resolveLarkMySqlContext(account)
      event == PersistEvent(ev) IN
  /\ Len(tasks) < MaxTasks
  /\ regCount < MaxRegs
  /\ tasks' = Append(tasks, [key |-> key, event |-> event, sink |-> EnvHasError(account),
                             pred |-> ExistingPromise(writeQueues, key),
                             st |-> "queued", prom |-> "pending"])
  /\ writeQueues' = [writeQueues EXCEPT ![key] = Len(tasks) + 1]
  /\ lastSubmitted' = [lastSubmitted EXCEPT ![key][event.message_id] = StringifyEvent(event)]
  /\ regs' = IF extractResources(ev) = <<>> THEN regs
             ELSE regs \cup {[account |-> account,
                               tenantKey |-> resolveLarkTenantKey(account, ev.tenant_key),
                               resources |-> extractResources(ev), st |-> "upsert"]}
  /\ regCount' = regCount + 1
  /\ UNCHANGED <<msgTable, chatTable, errorSink, histRuns, bootstrapDone, failedWrites>>
  /\ UNCHANGED <<resources, downloadInFlight, loops, transferCalls, bodyWrites, extractionSignals>>
  /\ UNCHANGED extVars
  /\ UNCHANGED dirVars

(* the events of the model of message persistence beside extraction         *)
MemEvents == {e \in ExtEvents : e.message_id = "m1"}

(* an inbound message from its handler to the memory sink: the persist      *)
(* task in the write queue, the download and the extraction of its          *)
(* resources                                                                *)
MemNext ==
  \/ \E e \in MemEvents : handleLarkMessageEvent("a1", e)
  \/ \E t \in TaskIds : TaskStart(t)
  \/ \E t \in TaskIds : TaskChatUser(t)
  \/ \E t \in TaskIds : TaskMessage(t)
  \/ \E t \in TaskIds : TaskFail(t)
  \/ \E t \in TaskIds : ChainSettle(t)
  \/ \E r \in regs : RegUpsert(r)
  \/ \E r \in regs : RegThen(r)
  \/ \E a \in ResAccounts : LoopFetch(a)
  \/ \E a \in ResAccounts : LoopExit(a)
  \/ \E a \in ResAccounts : LoopMark(a)
  \/ \E a \in ResAccounts : DownloadRequest(a)
  \/ \E a \in ResAccounts : DownloadResponse(a, NoNumber)
  \/ \E a \in ResAccounts : DownloadReady(a)
  \/ \E a \in ResAccounts : ExtSelect(a)
  \/ \E a \in ResAccounts : ExtExit(a)
  \/ \E a \in ResAccounts : ExtMark(a)
  \/ \E a \in ResAccounts : ExtMissingKey(a)
  \/ \E a \in ResAccounts, text \in Texts : ExtResult(a, text)
  \/ \E a \in ResAccounts : ExtMemory(a)
  \/ \E a \in ResAccounts : ExtMemoryError(a)

(***************************************************************************)
(* Directory synchronisation (directory-sync.ts) and the schema memo       *)
(* (mysql.ts).                                                             *)
(***************************************************************************)

MaxSyncs == 3         \* executions of runLarkDirectorySync of a started service
MaxSvcSyncs == 4      \* executions of runLarkDirectorySync of a restarted service

DEFAULT_ROOT_DEPARTMENT_ID == "0"

(* resolveLarkUserKey: user_id, else open_id, else union_id                *)
resolveLarkUserKey(ids) ==
  IF ids.user_id # NULL THEN ids.user_id
  ELSE IF ids.open_id # NULL THEN ids.open_id
  ELSE ids.union_id

(* one answer of a list endpoint after coerceLarkPage; throws stands for   *)
(* requestLarkApi raising on a response code other than 0                  *)
LarkPage(items, hasMore, nextPageToken, throws) ==
  [items |-> items, hasMore |-> hasMore, nextPageToken |-> nextPageToken, throws |-> throws]

(* collectAllPages: the pages are fetched while hasMore holds and a token  *)
(* came with the page; an error of any page is the error of the whole      *)
RECURSIVE collectAllPages(_)
collectAllPages(pages) ==
  LET page == Head(pages) IN
  IF page.throws THEN [throws |-> TRUE, items |-> <<>>]
  ELSE IF page.hasMore /\ page.nextPageToken # NULL /\ Len(pages) > 1
       THEN LET rest == collectAllPages(Tail(pages)) IN
            IF rest.throws THEN rest ELSE [rest EXCEPT !.items = page.items \o @]
       ELSE [throws |-> FALSE, items |-> page.items]

LarkDepartment(id, name) == [department_id |-> id, name |-> name]

(* what the platform answers during one sync: the pages of the children    *)
(* listing and of the member listing of each department, and the outcome   *)
(* of the direct fetch of the root.                                        *)
(*   full:         the root with d1 and d2, User1 in d1 and d2, User2 in   *)
(*                 d2, each listing of d2's members and the root's         *)
(*                 children in two pages                                   *)
(*   small:        a later state: d2 is gone, User1 has left, and the      *)
(*                 direct fetch of the root is refused                     *)
(*   membersFail:  the member listing of d2 fails on its second page       *)
(*   shared:       d2 is reported as a child of the root and of d1, and    *)
(*                 d1 as a child of d2: two parents and a cycle            *)
(*   childrenFail: the children listing of d1 fails                        *)
(*   empty:        no departments, the root answers without an id          *)
DirectoryReports ==
  LET User(userId, openId, departmentIds) ==
        [user_id |-> userId, open_id |-> openId, union_id |-> NULL,
         department_ids |-> departmentIds]
      User1 == User(NULL, "ou1", <<"d1", "d2">>)
      User2 == User("u2", "ou2", <<"d2">>)
      NoPages == [d \in {DEFAULT_ROOT_DEPARTMENT_ID, "d1", "d2"} |->
                    <<LarkPage(<<>>, FALSE, NULL, FALSE)>>]
      Failing == LarkPage(<<>>, FALSE, NULL, TRUE)
      full ==
        [children |->
           [NoPages EXCEPT ![DEFAULT_ROOT_DEPARTMENT_ID] =
              <<LarkPage(<<LarkDepartment("d1", "Sales")>>, TRUE, "p2", FALSE),
                LarkPage(<<LarkDepartment("d2", NULL)>>, FALSE, NULL, FALSE)>>],
         root |-> "found",
         members |->
           [NoPages EXCEPT !["d1"] = <<LarkPage(<<User1>>, FALSE, NULL, FALSE)>>,
                           !["d2"] = <<LarkPage(<<User1>>, TRUE, "p2", FALSE),
                                       LarkPage(<<User2>>, FALSE, NULL, FALSE)>>]] IN
  [full |-> full,
   small |->
     [children |->
        [NoPages EXCEPT ![DEFAULT_ROOT_DEPARTMENT_ID] =
           <<LarkPage(<<LarkDepartment("d1", "Sales")>>, FALSE, NULL, FALSE)>>],
      root |-> "throws",
      members |-> [NoPages EXCEPT !["d1"] = <<LarkPage(<<User2>>, FALSE, NULL, FALSE)>>]],
   membersFail |->
     [full EXCEPT !.members["d2"] = <<LarkPage(<<User1>>, TRUE, "p2", FALSE), Failing>>],
   shared |->
     [full EXCEPT !.children["d1"] =
                    <<LarkPage(<<LarkDepartment("d2", NULL)>>, FALSE, NULL, FALSE)>>,
                  !.children["d2"] =
                    <<LarkPage(<<LarkDepartment("d1", "Sales")>>, FALSE, NULL, FALSE)>>],
   childrenFail |-> [full EXCEPT !.children["d1"] = <<Failing>>],
   empty |-> [children |-> NoPages, root |-> "empty", members |-> NoPages]]

(* the variant without the visited test on the parent taken from the       *)
(* queue; the evaluation is cut off once the results hold six entries      *)
RECURSIVE traverseDepartmentsRevisiting(_, _, _, _)
traverseDepartmentsRevisiting(report, queue, visited, results) ==
  IF queue = <<>> \/ Len(results) >= 6
  THEN [throws |-> FALSE, departments |-> results, fetched |-> <<>>]
  ELSE LET parentId == Head(queue)
           children == collectAllPages(report.children[parentId])
           ids == [i \in DOMAIN children.items |-> children.items[i].department_id]
           rest == traverseDepartmentsRevisiting(report, Tail(queue) \o ids, visited,
                                                 results \o children.items) IN
       IF children.throws
       THEN [throws |-> TRUE, departments |-> <<>>, fetched |-> <<parentId>>]
       ELSE [rest EXCEPT !.fetched = <<parentId>> \o @]

(* fetchAllDepartments, the while loop: a parent is taken from the queue   *)
(* and skipped when visited; every listed child is pushed to the results   *)
(* and, unless visited, to the queue.  fetched lists the parents whose     *)
(* children listing was requested, in order.                               *)
RECURSIVE traverseDepartments(_, _, _, _)
traverseDepartments(report, queue, visited, results) ==
  IF queue = <<>> THEN [throws |-> FALSE, departments |-> results, fetched |-> <<>>]
  ELSE LET parentId == Head(queue) IN
       IF parentId \in visited
       THEN traverseDepartments(report, Tail(queue), visited, results)
       ELSE LET children == collectAllPages(report.children[parentId])
                ids == [i \in DOMAIN children.items |-> children.items[i].department_id]
                seen == visited \cup {parentId}
                rest == traverseDepartments(report,
                          Tail(queue) \o SelectSeq(ids, LAMBDA id : id \notin seen),
                          seen, results \o children.items) IN
            IF children.throws
            THEN [throws |-> TRUE, departments |-> <<>>, fetched |-> <<parentId>>]
            ELSE [rest EXCEPT !.fetched = <<parentId>> \o @]

(* the variant whose catch hands the error of getDepartment on             *)
fetchAllDepartmentsRootRethrown(report, rootDepartmentId) ==
  LET listed == traverseDepartments(report, <<rootDepartmentId>>, {}, <<>>) IN
  IF listed.throws
     \/ \E i \in DOMAIN listed.departments :
          listed.departments[i].department_id = rootDepartmentId
  THEN listed
  ELSE IF report.root = "found"
       THEN [listed EXCEPT !.departments = <<LarkDepartment(rootDepartmentId, "HQ")>> \o @]
       ELSE IF report.root = "empty" THEN listed
       ELSE [listed EXCEPT !.throws = TRUE, !.departments = <<>>]

(* fetchAllDepartments: the traversal, then the root: when no listing had  *)
(* it, getDepartment's answer is put in front, nothing when the answer     *)
(* holds no department, and the placeholder when getDepartment throws      *)
fetchAllDepartments(report, rootDepartmentId) ==
  LET listed == traverseDepartments(report, <<rootDepartmentId>>, {}, <<>>) IN
  IF listed.throws
     \/ \E i \in DOMAIN listed.departments :
          listed.departments[i].department_id = rootDepartmentId
  THEN listed
  ELSE IF report.root = "found"
       THEN [listed EXCEPT !.departments = <<LarkDepartment(rootDepartmentId, "HQ")>> \o @]
       ELSE IF report.root = "empty" THEN listed
       ELSE [listed EXCEPT !.departments =
               <<LarkDepartment(rootDepartmentId, "Root Department")>> \o @]

(* the members of one department: the user keys new to the map and one     *)
(* relation per member with a key                                          *)
RECURSIVE collectMembers(_, _, _)
collectMembers(members, departmentId, acc) ==
  IF members = <<>> THEN acc
  ELSE LET member == Head(members)
           userKey == resolveLarkUserKey(member)
           primary == IF member.department_ids = <<>> THEN NULL ELSE member.department_ids[1] IN
       IF userKey = NULL THEN collectMembers(Tail(members), departmentId, acc)
       ELSE collectMembers(Tail(members), departmentId,
              [acc EXCEPT !.users = IF \E i \in DOMAIN @ : @[i] = userKey
                                    THEN @ ELSE Append(@, userKey),
                          !.relations = Append(@, [userKey |-> userKey,
                                                   departmentId |-> departmentId,
                                                   isPrimary |-> primary = departmentId])])

(* the variant without the try around the member listing of a department   *)
RECURSIVE fetchUsersForDepartmentsUncaught(_, _, _)
fetchUsersForDepartmentsUncaught(report, departments, acc) ==
  IF departments = <<>> THEN acc
  ELSE LET departmentId == Head(departments).department_id
           members == collectAllPages(report.members[departmentId]) IN
       IF members.throws THEN [acc EXCEPT !.throws = TRUE]
       ELSE fetchUsersForDepartmentsUncaught(report, Tail(departments),
                                             collectMembers(members.items, departmentId, acc))

(* fetchUsersForDepartments: department by department, all pages of its    *)
(* members first; a listing that throws is logged and the department       *)
(* skipped                                                                 *)
RECURSIVE fetchUsersForDepartments(_, _, _)
fetchUsersForDepartments(report, departments, acc) ==
  IF departments = <<>> THEN acc
  ELSE LET departmentId == Head(departments).department_id
           members == collectAllPages(report.members[departmentId]) IN
       IF members.throws THEN fetchUsersForDepartments(report, Tail(departments), acc)
       ELSE fetchUsersForDepartments(report, Tail(departments),
                                     collectMembers(members.items, departmentId, acc))

DirInit ==
  /\ schemaReady = [k \in Keys |-> 0]
  /\ schemaRuns = <<>>
  /\ syncRuns = <<>>
  /\ timers = {}
  /\ inFlight = {}
  /\ orgDepartment = {}
  /\ orgUser = {}
  /\ orgUserDepartmentRel = {}

(* the variant in which ensureLarkSchema starts a creation at every call   *)
runWithoutMemo(st, account) ==
  IF account \in st.inFlight THEN st
  ELSE LET key == resolveLarkMySqlContext(account)
           task == Len(st.schemaRuns) + 1 IN
       [schemaReady |-> [st.schemaReady EXCEPT ![key] = task],
        schemaRuns |-> Append(st.schemaRuns, [key |-> key, status |-> "running"]),
        syncRuns |-> Append(st.syncRuns,
                            [account |-> account, pc |-> "schema", awaits |-> task,
                             creator |-> TRUE, report |-> NULL,
                             departments |-> <<>>, users |-> <<>>, relations |-> <<>>,
                             tx |-> <<>>, error |-> NULL]),
        inFlight |-> st.inFlight \cup {account}]

(* the run closure of the service up to its first suspension: the          *)
(* inFlight guard and marker, then runLarkDirectorySync calling            *)
(* ensureLarkSchema, which returns the memoized promise or starts the      *)
(* creation and memoizes it before anything is awaited.  st holds          *)
(* schemaReady, schemaRuns, syncRuns and inFlight.                         *)
run(st, account) ==
  IF account \in st.inFlight THEN st
  ELSE LET key == resolveLarkMySqlContext(account)
           existing == st.schemaReady[key]
           task == IF existing # 0 THEN existing ELSE Len(st.schemaRuns) + 1 IN
       [schemaReady |-> [st.schemaReady EXCEPT ![key] = task],
        schemaRuns |-> IF existing # 0 THEN st.schemaRuns
                       ELSE Append(st.schemaRuns, [key |-> key, status |-> "running"]),
        syncRuns |-> Append(st.syncRuns,
                            [account |-> account, pc |-> "schema", awaits |-> task,
                             creator |-> existing = 0, report |-> NULL,
                             departments |-> <<>>, users |-> <<>>, relations |-> <<>>,
                             tx |-> <<>>, error |-> NULL]),
        inFlight |-> st.inFlight \cup {account}]

(* start of the service on a stopped service: for each account, in the     *)
(* order of listLarkAccountIds, scheduleLarkExtraction, a first run and    *)
(* the interval timer                                                      *)
DirectoryStart ==
  LET st == run(run([schemaReady |-> schemaReady, schemaRuns |-> schemaRuns,
                     syncRuns |-> syncRuns, inFlight |-> inFlight], "a1"), "a2") IN
  /\ timers = {}
  /\ schemaReady' = st.schemaReady
  /\ schemaRuns' = st.schemaRuns
  /\ syncRuns' = st.syncRuns
  /\ inFlight' = st.inFlight
  /\ timers' = ResAccounts
  /\ extLoops' = [a \in ResAccounts |-> ScheduledExtraction(a)[a]]
  /\ extractionInFlight' = extractionInFlight \cup ResAccounts
  /\ serviceStarted' = serviceStarted \cup ResAccounts
  /\ UNCHANGED <<orgDepartment, orgUser, orgUserDepartmentRel>>
  /\ UNCHANGED <<extractions, capabilityCalls, memoryCalls, memoryItems>>
  /\ UNCHANGED wqVars
  /\ UNCHANGED resVars

(* stop of the service: the timers are cleared, and so is inFlight         *)
DirectoryStop ==
  /\ timers # {}
  /\ timers' = {}
  /\ inFlight' = {}
  /\ UNCHANGED <<schemaReady, schemaRuns, syncRuns, orgDepartment, orgUser,
                 orgUserDepartmentRel>>
  /\ UNCHANGED wqVars
  /\ UNCHANGED resVars
  /\ UNCHANGED extVars

(* a tick of the interval timer of an account: run; with the marker set    *)
(* it returns at once                                                      *)
SyncTick(a) ==
  LET st == run([schemaReady |-> schemaReady, schemaRuns |-> schemaRuns,
                 syncRuns |-> syncRuns, inFlight |-> inFlight], a) IN
  /\ a \in timers
  /\ schemaReady' = st.schemaReady
  /\ schemaRuns' = st.schemaRuns
  /\ syncRuns' = st.syncRuns
  /\ inFlight' = st.inFlight
  /\ UNCHANGED <<timers, orgDepartment, orgUser, orgUserDepartmentRel>>
  /\ UNCHANGED wqVars
  /\ UNCHANGED resVars
  /\ UNCHANGED extVars

(* ensureLarkSchema: the last statement of the creation succeeds and the   *)
(* memoized promise resolves; the entry stays                              *)
SchemaResolve(s) ==
  /\ s \in DOMAIN schemaRuns
  /\ schemaRuns[s].status = "running"
  /\ schemaRuns' = [schemaRuns EXCEPT ![s].status = "resolved"]
  /\ UNCHANGED <<schemaReady, syncRuns, timers, inFlight, orgDepartment, orgUser,
                 orgUserDepartmentRel>>
  /\ UNCHANGED wqVars
  /\ UNCHANGED resVars
  /\ UNCHANGED extVars

(* the variant of the catch that leaves the entry in the memo              *)
SchemaRejectMemoized(s) ==
  LET creator == CHOOSE r \in DOMAIN syncRuns :
                   syncRuns[r].awaits = s /\ syncRuns[r].creator IN
  /\ s \in DOMAIN schemaRuns
  /\ schemaRuns[s].status = "running"
  /\ schemaRuns' = [schemaRuns EXCEPT ![s].status = "rejected"]
  /\ syncRuns' = [syncRuns EXCEPT ![creator].pc = "failed",
                                  ![creator].error = "schema"]
  /\ inFlight' = inFlight \ {syncRuns[creator].account}
  /\ UNCHANGED <<schemaReady, timers, orgDepartment, orgUser, orgUserDepartmentRel>>
  /\ UNCHANGED wqVars
  /\ UNCHANGED resVars
  /\ UNCHANGED extVars

(* ensureLarkSchema: a statement of the creation throws and the promise    *)
(* rejects; the first reaction is the catch of the call that started the   *)
(* creation, which deletes the entry of the key and throws on, so that     *)
(* its sync fails and run's finally deletes the marker of the account      *)
SchemaReject(s) ==
  LET creator == CHOOSE r \in DOMAIN syncRuns :
                   syncRuns[r].awaits = s /\ syncRuns[r].creator IN
  /\ s \in DOMAIN schemaRuns
  /\ schemaRuns[s].status = "running"
  /\ schemaRuns' = [schemaRuns EXCEPT ![s].status = "rejected"]
  /\ schemaReady' = [schemaReady EXCEPT ![schemaRuns[s].key] = 0]
  /\ syncRuns' = [syncRuns EXCEPT ![creator].pc = "failed",
                                  ![creator].error = "schema"]
  /\ inFlight' = inFlight \ {syncRuns[creator].account}
  /\ UNCHANGED <<timers, orgDepartment, orgUser, orgUserDepartmentRel>>
  /\ UNCHANGED wqVars
  /\ UNCHANGED resVars
  /\ UNCHANGED extVars

(* ensureLarkSchema, return await existing: a call that awaited the        *)
(* memoized promise sees it rejected; its sync fails and run's finally     *)
(* deletes the marker of the account                                       *)
SyncSchemaFailed(r) ==
  /\ r \in DOMAIN syncRuns
  /\ syncRuns[r].pc = "schema"
  /\ ~syncRuns[r].creator
  /\ schemaRuns[syncRuns[r].awaits].status = "rejected"
  /\ syncRuns' = [syncRuns EXCEPT ![r].pc = "failed", ![r].error = "schema"]
  /\ inFlight' = inFlight \ {syncRuns[r].account}
  /\ UNCHANGED <<schemaReady, schemaRuns, timers, orgDepartment, orgUser,
                 orgUserDepartmentRel>>
  /\ UNCHANGED wqVars
  /\ UNCHANGED resVars
  /\ UNCHANGED extVars

(* runLarkDirectorySync after the schema: fetchAllDepartments and          *)
(* fetchUsersForDepartments against the platform's answers; an error of    *)
(* the traversal ends the sync before the write phase                      *)
SyncCollect(r, tag) ==
  LET report == DirectoryReports[tag]
      listed == fetchAllDepartments(report, DEFAULT_ROOT_DEPARTMENT_ID)
      members == fetchUsersForDepartments(report, listed.departments,
                                          [users |-> <<>>, relations |-> <<>>,
                                           throws |-> FALSE])
      failed == listed.throws \/ members.throws IN
  /\ r \in DOMAIN syncRuns
  /\ syncRuns[r].pc = "schema"
  /\ schemaRuns[syncRuns[r].awaits].status = "resolved"
  /\ syncRuns' = [syncRuns EXCEPT ![r] =
                    IF failed THEN [@ EXCEPT !.pc = "failed", !.error = "fetch", !.report = tag]
                    ELSE [@ EXCEPT !.pc = "begin", !.report = tag,
                                   !.departments = listed.departments,
                                   !.users = members.users,
                                   !.relations = members.relations]]
  /\ inFlight' = IF failed THEN inFlight \ {syncRuns[r].account} ELSE inFlight
  /\ UNCHANGED <<schemaReady, schemaRuns, timers, orgDepartment, orgUser,
                 orgUserDepartmentRel>>
  /\ UNCHANGED wqVars
  /\ UNCHANGED resVars
  /\ UNCHANGED extVars

(* the variant in which the DELETE of the tenant's relations finds no row  *)
RECURSIVE ApplyStatementsKeepsRelations(_, _, _)
ApplyStatementsKeepsRelations(tables, sync, log) ==
  LET tenantKey == resolveLarkTenantKey(sync.account, NULL)
      depts == sync.departments
      deptRows == {[tenant_key |-> tenantKey, department_id |-> depts[i].department_id,
                    name |-> IF depts[i].name = NULL THEN depts[i].department_id
                             ELSE depts[i].name] :
                   i \in {i \in DOMAIN depts :
                            \A j \in DOMAIN depts :
                              j > i => depts[j].department_id # depts[i].department_id}}
      userRows == {[tenant_key |-> tenantKey, user_key |-> sync.users[i]] :
                   i \in DOMAIN sync.users}
      relRows == {[tenant_key |-> tenantKey, user_key |-> sync.relations[i].userKey,
                   department_id |-> sync.relations[i].departmentId,
                   is_primary |-> IF sync.relations[i].isPrimary THEN 1 ELSE 0] :
                  i \in DOMAIN sync.relations} IN
  IF log = <<>> THEN tables
  ELSE ApplyStatementsKeepsRelations(
         IF Head(log) = "departments"
         THEN [tables EXCEPT !.orgDepartment =
                 {row \in @ : \A new \in deptRows :
                    ~(new.tenant_key = row.tenant_key
                      /\ new.department_id = row.department_id)} \cup deptRows]
         ELSE IF Head(log) = "users"
         THEN [tables EXCEPT !.orgUser = @ \cup userRows]
         ELSE IF Head(log) = "relDelete"
         THEN tables
         ELSE [tables EXCEPT !.orgUserDepartmentRel = @ \cup relRows],
         sync, Tail(log))

(* the variant in which the DELETE of the relations has no tenant filter    *)
RECURSIVE ApplyStatementsDeleteAll(_, _, _)
ApplyStatementsDeleteAll(tables, sync, log) ==
  LET tenantKey == resolveLarkTenantKey(sync.account, NULL)
      depts == sync.departments
      deptRows == {[tenant_key |-> tenantKey, department_id |-> depts[i].department_id,
                    name |-> IF depts[i].name = NULL THEN depts[i].department_id
                             ELSE depts[i].name] :
                   i \in {i \in DOMAIN depts :
                            \A j \in DOMAIN depts :
                              j > i => depts[j].department_id # depts[i].department_id}}
      userRows == {[tenant_key |-> tenantKey, user_key |-> sync.users[i]] :
                   i \in DOMAIN sync.users}
      relRows == {[tenant_key |-> tenantKey, user_key |-> sync.relations[i].userKey,
                   department_id |-> sync.relations[i].departmentId,
                   is_primary |-> IF sync.relations[i].isPrimary THEN 1 ELSE 0] :
                  i \in DOMAIN sync.relations} IN
  IF log = <<>> THEN tables
  ELSE ApplyStatementsDeleteAll(
         IF Head(log) = "departments"
         THEN [tables EXCEPT !.orgDepartment =
                 {row \in @ : \A new \in deptRows :
                    ~(new.tenant_key = row.tenant_key
                      /\ new.department_id = row.department_id)} \cup deptRows]
         ELSE IF Head(log) = "users"
         THEN [tables EXCEPT !.orgUser = @ \cup userRows]
         ELSE IF Head(log) = "relDelete"
         THEN [tables EXCEPT !.orgUserDepartmentRel = {}]
         ELSE [tables EXCEPT !.orgUserDepartmentRel = @ \cup relRows],
         sync, Tail(log))

(* the statements of the write phase of a sync, in the order of its        *)
(* transaction, applied to the rows of the three tables: the upsert of     *)
(* the departments on (tenant_key, department_id), the upsert of the       *)
(* users on (tenant_key, user_key), the DELETE of the tenant's relations   *)
(* and the INSERT of the collected ones                                    *)
RECURSIVE ApplyStatements(_, _, _)
ApplyStatements(tables, sync, log) ==
  LET tenantKey == resolveLarkTenantKey(sync.account, NULL)
      depts == sync.departments
      deptRows == {[tenant_key |-> tenantKey, department_id |-> depts[i].department_id,
                    name |-> IF depts[i].name = NULL THEN depts[i].department_id
                             ELSE depts[i].name] :
                   i \in {i \in DOMAIN depts :
                            \A j \in DOMAIN depts :
                              j > i => depts[j].department_id # depts[i].department_id}}
      userRows == {[tenant_key |-> tenantKey, user_key |-> sync.users[i]] :
                   i \in DOMAIN sync.users}
      relRows == {[tenant_key |-> tenantKey, user_key |-> sync.relations[i].userKey,
                   department_id |-> sync.relations[i].departmentId,
                   is_primary |-> IF sync.relations[i].isPrimary THEN 1 ELSE 0] :
                  i \in DOMAIN sync.relations} IN
  IF log = <<>> THEN tables
  ELSE ApplyStatements(
         IF Head(log) = "departments"
         THEN [tables EXCEPT !.orgDepartment =
                 {row \in @ : \A new \in deptRows :
                    ~(new.tenant_key = row.tenant_key
                      /\ new.department_id = row.department_id)} \cup deptRows]
         ELSE IF Head(log) = "users"
         THEN [tables EXCEPT !.orgUser = @ \cup userRows]
         ELSE IF Head(log) = "relDelete"
         THEN [tables EXCEPT !.orgUserDepartmentRel =
                 {row \in @ : row.tenant_key # tenantKey}]
         ELSE [tables EXCEPT !.orgUserDepartmentRel = @ \cup relRows],
         sync, Tail(log))

(* whether the write phase executes a statement at this position: the      *)
(* three INSERTs are skipped for an empty list                             *)
HasStatement(sync) ==
  /\ sync.pc \in {"begin", "departments", "users", "relDelete", "relations", "commit"}
  /\ sync.pc = "departments" => sync.departments # <<>>
  /\ sync.pc = "users" => sync.users # <<>>
  /\ sync.pc = "relations" => sync.relations # <<>>

(* the write phase of runLarkDirectorySync, statement by statement on the  *)
(* connection of the transaction: beginTransaction, the INSERTs and the    *)
(* DELETE, whose effect stays in the transaction, and commit, which        *)
(* makes it the rows of the tables and ends the sync, whose locals are     *)
(* dropped.  The INSERT of relations with one key twice cannot succeed.    *)
SyncExecute(r) ==
  LET sync == syncRuns[r]
      after == ApplyStatements([orgDepartment |-> orgDepartment, orgUser |-> orgUser,
                                orgUserDepartmentRel |-> orgUserDepartmentRel],
                               sync, sync.tx) IN
  /\ r \in DOMAIN syncRuns
  /\ sync.pc \in {"begin", "departments", "users", "relDelete", "relations", "commit"}
  /\ sync.pc = "relations" =>
       \A i, j \in DOMAIN sync.relations :
         (sync.relations[i].userKey = sync.relations[j].userKey
          /\ sync.relations[i].departmentId = sync.relations[j].departmentId) => i = j
  /\ syncRuns' = [syncRuns EXCEPT
       ![r].pc = IF @ = "begin" THEN "departments"
                 ELSE IF @ = "departments" THEN "users"
                 ELSE IF @ = "users" THEN "relDelete"
                 ELSE IF @ = "relDelete" THEN "relations"
                 ELSE IF @ = "relations" THEN "commit" ELSE "done",
       ![r].tx = IF sync.pc = "commit" THEN <<>>
                 ELSE IF sync.pc = "begin" \/ ~HasStatement(sync) THEN @
                 ELSE Append(@, sync.pc),
       ![r].report = IF sync.pc = "commit" THEN NULL ELSE @,
       ![r].departments = IF sync.pc = "commit" THEN <<>> ELSE @,
       ![r].users = IF sync.pc = "commit" THEN <<>> ELSE @,
       ![r].relations = IF sync.pc = "commit" THEN <<>> ELSE @]
  /\ orgDepartment' = IF sync.pc = "commit" THEN after.orgDepartment ELSE orgDepartment
  /\ orgUser' = IF sync.pc = "commit" THEN after.orgUser ELSE orgUser
  /\ orgUserDepartmentRel' =
       IF sync.pc = "commit" THEN after.orgUserDepartmentRel ELSE orgUserDepartmentRel
  /\ inFlight' = IF sync.pc = "commit" THEN inFlight \ {sync.account} ELSE inFlight
  /\ UNCHANGED <<schemaReady, schemaRuns, timers>>
  /\ UNCHANGED wqVars
  /\ UNCHANGED resVars
  /\ UNCHANGED extVars

(* a statement of the write phase throws: the catch is entered             *)
SyncStatementError(r) ==
  /\ r \in DOMAIN syncRuns
  /\ HasStatement(syncRuns[r])
  /\ syncRuns' = [syncRuns EXCEPT ![r].pc = "rollback"]
  /\ UNCHANGED <<schemaReady, schemaRuns, timers, inFlight, orgDepartment, orgUser,
                 orgUserDepartmentRel>>
  /\ UNCHANGED wqVars
  /\ UNCHANGED resVars
  /\ UNCHANGED extVars

(* the variant of the catch that commits what the transaction holds        *)
SyncRollbackCommits(r) ==
  LET sync == syncRuns[r]
      after == ApplyStatements([orgDepartment |-> orgDepartment, orgUser |-> orgUser,
                                orgUserDepartmentRel |-> orgUserDepartmentRel],
                               sync, sync.tx) IN
  /\ r \in DOMAIN syncRuns
  /\ sync.pc = "rollback"
  /\ syncRuns' = [syncRuns EXCEPT ![r].pc = "failed", ![r].error = "write", ![r].tx = <<>>,
                                  ![r].report = NULL, ![r].departments = <<>>,
                                  ![r].users = <<>>, ![r].relations = <<>>]
  /\ orgDepartment' = after.orgDepartment
  /\ orgUser' = after.orgUser
  /\ orgUserDepartmentRel' = after.orgUserDepartmentRel
  /\ inFlight' = inFlight \ {sync.account}
  /\ UNCHANGED <<schemaReady, schemaRuns, timers>>
  /\ UNCHANGED wqVars
  /\ UNCHANGED resVars
  /\ UNCHANGED extVars

(* the catch of the write phase: rollback drops what the transaction       *)
(* holds, the error is thrown on to run, which logs it, and run's finally  *)
(* deletes the marker of the account                                       *)
SyncRollback(r) ==
  /\ r \in DOMAIN syncRuns
  /\ syncRuns[r].pc = "rollback"
  /\ syncRuns' = [syncRuns EXCEPT ![r].pc = "failed", ![r].error = "write", ![r].tx = <<>>,
                                  ![r].report = NULL, ![r].departments = <<>>,
                                  ![r].users = <<>>, ![r].relations = <<>>]
  /\ inFlight' = inFlight \ {syncRuns[r].account}
  /\ UNCHANGED <<schemaReady, schemaRuns, timers, orgDepartment, orgUser,
                 orgUserDepartmentRel>>
  /\ UNCHANGED wqVars
  /\ UNCHANGED resVars
  /\ UNCHANGED extVars

(* the directory sync of a started service against a store whose schema    *)
(* creation succeeds                                                       *)
DirNext ==
  \/ DirectoryStart
  \/ \E a \in ResAccounts : Len(syncRuns) < MaxSyncs /\ SyncTick(a)
  \/ \E s \in DOMAIN schemaRuns : SchemaResolve(s)
  \/ \E r \in DOMAIN syncRuns, tag \in DOMAIN DirectoryReports : SyncCollect(r, tag)
  \/ \E r \in DOMAIN syncRuns : SyncExecute(r)
  \/ \E r \in DOMAIN syncRuns : SyncStatementError(r)
  \/ \E r \in DOMAIN syncRuns : SyncRollback(r)

(* the service under starts, ticks and stops, with a schema creation that  *)
(* may fail and a platform that reports the full directory                 *)
SvcNext ==
  \/ Len(syncRuns) + Cardinality(ResAccounts) <= MaxSvcSyncs /\ DirectoryStart
  \/ DirectoryStop
  \/ \E a \in ResAccounts : Len(syncRuns) < MaxSvcSyncs /\ SyncTick(a)
  \/ \E s \in DOMAIN schemaRuns : SchemaResolve(s)
  \/ \E s \in DOMAIN schemaRuns : SchemaReject(s)
  \/ \E r \in DOMAIN syncRuns : SyncSchemaFailed(r)
  \/ \E r \in DOMAIN syncRuns : SyncCollect(r, "full")
  \/ \E r \in DOMAIN syncRuns : SyncExecute(r)

(* the events of the model of failing items: a voice clip with an image,   *)
(* so that a batch has two items                                           *)
FaultEvents == {e \in ExtEvents : e.message_id = "m1"}

(* both drain loops of one account with items that fail: the transfer or   *)
(* the file write throws, a capability throws                              *)
FaultNext ==
  \/ \E e \in FaultEvents : enqueueLarkMessageResources("a1", e)
  \/ \E r \in regs : RegUpsert(r)
  \/ \E r \in regs : RegThen(r)
  \/ \E a \in ResAccounts : LoopFetch(a)
  \/ \E a \in ResAccounts : LoopExit(a)
  \/ \E a \in ResAccounts : LoopMark(a)
  \/ \E a \in ResAccounts : DownloadRequest(a)
  \/ \E a \in ResAccounts : DownloadError(a)
  \/ \E a \in ResAccounts : DownloadResponse(a, NoNumber)
  \/ \E a \in ResAccounts : DownloadReady(a)
  \/ \E a \in ResAccounts : DownloadWriteError(a)
  \/ \E a \in ResAccounts : ExtSelect(a)
  \/ \E a \in ResAccounts : ExtExit(a)
  \/ \E a \in ResAccounts : ExtMark(a)
  \/ \E a \in ResAccounts : ExtMissingKey(a)
  \/ \E a \in ResAccounts : ExtResult(a, "")
  \/ \E a \in ResAccounts : ExtError(a)

(* the state after the modules are loaded                                  *)
Init == WqInit /\ ResInit /\ ExtInit /\ DirInit

SpecWQ == Init /\ [][WqNext]_vars

SpecRes == Init /\ [][ResNext]_vars

SpecExt == Init /\ [][ExtNext]_vars

SpecGuard == Init /\ [][GuardNext]_vars

SpecMem == Init /\ [][MemNext]_vars

(* a step of a registration or of a download loop                          *)
DownloadStep ==
  \/ \E r \in regs : RegUpsert(r) \/ RegThen(r)
  \/ \E a \in ResAccounts :
       \/ LoopFetch(a) \/ LoopExit(a) \/ LoopMark(a)
       \/ DownloadRequest(a) \/ DownloadResponse(a, NoNumber) \/ DownloadReady(a)

(* a step of an extraction loop, whatever its capability answers           *)
ExtractionStep ==
  \E a \in ResAccounts :
    \/ ExtSelect(a) \/ ExtExit(a) \/ ExtMark(a) \/ ExtMissingKey(a) \/ ExtMemory(a)
    \/ ExtError(a) \/ \E text \in Texts \ {" "} : ExtResult(a, text)

(* the event loop runs every scheduled callback and the store and the      *)
(* capabilities answer every call                                          *)
ExtFairness == WF_vars(DownloadStep) /\ WF_vars(ExtractionStep)

SpecFault == Init /\ [][FaultNext]_vars

SpecDir == Init /\ [][DirNext]_vars

SpecSvc == Init /\ [][SvcNext]_vars

(* a step of a download loop, whatever the transfer and the file write do  *)
DrainStep(a) ==
  \/ LoopFetch(a) \/ LoopExit(a) \/ LoopMark(a)
  \/ DownloadRequest(a) \/ DownloadError(a) \/ DownloadResponse(a, NoNumber)
  \/ DownloadReady(a) \/ DownloadWriteError(a)

(* the callbacks of the download loops run and the transfers answer        *)
SpecFaultFair == SpecFault /\ \A a \in ResAccounts : WF_vars(DrainStep(a))

SpecExtFair == Init /\ [][ExtNext]_vars /\ ExtFairness

(***************************************************************************)
(* Properties of the write queue.                                          *)
(***************************************************************************)
Running(st) == st \in {"chat", "message"}

(* C1: a task that has started has every earlier task of its key settled,  *)
(* and no two tasks of one key are running at the same time.               *)
C1_SerializedPerKey ==
  \A t \in TaskIds : \A u \in TaskIds :
    (t < u /\ tasks[t].key = tasks[u].key) =>
      /\ (tasks[u].st # "queued" => Settled(tasks[t].st))
      /\ ~(Running(tasks[t].st) /\ Running(tasks[u].st))

C1_Witness ==
  \E t \in TaskIds : \E u \in TaskIds :
    /\ t < u
    /\ tasks[t].key = tasks[u].key
    /\ tasks[t].st \in {"resolved", "rejected"}
    /\ Running(tasks[u].st)

(* C2: a rejected task never keeps a later task of its key from running    *)
(* (no task is skipped), its error reaches env.error once the chain has     *)
(* handled it, and the promise kept in the map never rejects.              *)
C2_FailureSwallowed ==
  \A t \in TaskIds :
    /\ tasks[t].st # "skipped"
    /\ tasks[t].prom # "rejected"
    /\ (tasks[t].st = "rejected" /\ tasks[t].prom # "pending" /\ tasks[t].sink) => t \in errorSink
    /\ (t \in errorSink => tasks[t].st = "rejected")

C2_Witness ==
  \E t \in TaskIds : \E u \in TaskIds :
    /\ t < u
    /\ tasks[t].key = tasks[u].key
    /\ tasks[t].st = "rejected"
    /\ t \in errorSink
    /\ tasks[u].st = "resolved"

(* C3: a queued task waits only on the chain of its own key: once every    *)
(* earlier task of its key has settled it can start, whatever the tasks of  *)
(* the other keys are doing.                                               *)
C3_KeysIndependent ==
  \A u \in TaskIds :
    /\ (tasks[u].pred # 0 => tasks[tasks[u].pred].key = tasks[u].key)
    /\ (/\ tasks[u].st = "queued"
        /\ \A t \in TaskIds : (t < u /\ tasks[t].key = tasks[u].key) => tasks[t].prom # "pending")
       => PromOf(tasks[u].pred) # "pending"

C3_Witness ==
  \E t \in TaskIds : \E u \in TaskIds :
    /\ t < u
    /\ tasks[t].key # tasks[u].key
    /\ Running(tasks[t].st)
    /\ tasks[u].st = "resolved"

NoWriteInFlight(k) ==
  /\ \A t \in TaskIds : tasks[t].key = k => (Settled(tasks[t].st) /\ tasks[t].prom # "pending")
  /\ \A h \in HistIds : histRuns[h].key = k => histRuns[h].st \in {"done", "failed"}

(* C4: once every submitted write of a key has been applied, the row of a   *)
(* message id is the last write submitted for it, whether the event path    *)
(* or the history backfill submitted it.                                   *)
C4_LastSubmittedWins ==
  \A k \in Keys : \A m \in Msgs :
    (NoWriteInFlight(k) /\ m \notin failedWrites[k] /\ lastSubmitted[k][m] # NoWrite) =>
      /\ RowIndex(msgTable[k], m) # 0
      /\ msgTable[k][RowIndex(msgTable[k], m)].raw_event = lastSubmitted[k][m]

UniqueMessageIds(table) ==
  \A i \in 1..Len(table) : \A j \in 1..Len(table) :
    table[i].message_id = table[j].message_id => i = j

(* C5: the message upsert of a task keeps one row per message id; for a    *)
(* message id that has a row it adds no row, keeps the row's id, stores the *)
(* new payload and its hash, leaves the other rows alone, and changes       *)
(* nothing at all when the payload is the stored one.                      *)
C5_IdempotentUpsert ==
  [][\A t \in TaskIds :
       (tasks[t].st = "message" /\ tasks'[t].st = "resolved") =>
         LET k == tasks[t].key
             ev == tasks[t].event
             old == msgTable[k]
             new == msgTable'[k]
             i == RowIndex(old, ev.message_id)
         IN /\ UniqueMessageIds(new)
            /\ RowIndex(new, ev.message_id) # 0
            /\ new[RowIndex(new, ev.message_id)].raw_event = StringifyEvent(ev)
            /\ new[RowIndex(new, ev.message_id)].dedupe_hash =
                 computeDedupeHash(ev.message_id, StringifyEvent(ev))
            /\ i # 0 =>
                 /\ Len(new) = Len(old)
                 /\ new[i].id = old[i].id
                 /\ new[i].message_id = ev.message_id
                 /\ \A j \in 1..Len(old) : j # i => new[j] = old[j]
                 /\ old[i].raw_event = StringifyEvent(ev) => new = old
    ]_vars

C5_Witness ==
  \E t \in TaskIds : \E u \in TaskIds :
    /\ t < u
    /\ tasks[t].key = tasks[u].key
    /\ tasks[t].event.message_id = tasks[u].event.message_id
    /\ tasks[t].event.content # tasks[u].event.content
    /\ tasks[t].st = "resolved"
    /\ tasks[u].st = "resolved"
    /\ Len(msgTable[tasks[t].key]) = 1
    /\ msgTable[tasks[t].key][1].content = tasks[u].event.content

(***************************************************************************)
(* Properties of the resource lifecycle.                                   *)
(***************************************************************************)
StatusEdges ==
  { <<"pending", "downloading">>, <<"failed", "downloading">>, <<"downloading", "ready">>,
    <<"downloading", "too_large">>, <<"downloading", "failed">> }

LoopActive(a) == a \in downloadInFlight /\ loops[a].pc # "idle"

(* the rows a running loop still has to work on                            *)
Upcoming(a) ==
  IF loops[a].pc = "mark" THEN {loops[a].pending[n].id : n \in loops[a].i..Len(loops[a].pending)}
  ELSE IF loops[a].pc \in {"download", "transfer", "response"}
    THEN {loops[a].pending[n].id : n \in (loops[a].i + 1)..Len(loops[a].pending)}
  ELSE {}

(* C7: attempts never exceed 3; a failed row below 3 attempts exists only   *)
(* while the loop of its account is still draining, so a resource whose      *)
(* downloads all fail is at failed with attempts 3 when the loop has ended;  *)
(* a failed row with 3 attempts is in no selection and in no batch.         *)
C7_RetryCeiling ==
  \A i \in ResIds :
    /\ resources[i].attempts <= 3
    /\ (resources[i].status = "failed" /\ resources[i].attempts < 3) =>
         (resources[i].tenant_key \in ResAccounts /\ LoopActive(resources[i].tenant_key))
    /\ (resources[i].status = "failed" /\ resources[i].attempts = 3) =>
         /\ \A n \in 1..Len(fetchPendingResources(resources, resources[i].tenant_key)) :
              fetchPendingResources(resources, resources[i].tenant_key)[n].id # i
         /\ \A a \in ResAccounts : i \notin Upcoming(a)

C7_Witness ==
  \E i \in ResIds :
    /\ resources[i].status = "failed"
    /\ resources[i].attempts = 3
    /\ resources[i].tenant_key \in ResAccounts
    /\ ~LoopActive(resources[i].tenant_key)

(* C8: a row in status ready or too_large keeps its status in every step,   *)
(* is in no selection and is not ahead in the batch of any loop.            *)
C8_TerminalStatus ==
  /\ [](\A i \in ResIds :
          resources[i].status \in {"ready", "too_large"} =>
            /\ \A n \in 1..Len(fetchPendingResources(resources, resources[i].tenant_key)) :
                 fetchPendingResources(resources, resources[i].tenant_key)[n].id # i
            /\ \A a \in ResAccounts : i \notin Upcoming(a))
  /\ [][\A i \in 1..Len(resources) :
          resources[i].status \in {"ready", "too_large"} =>
            resources'[i].status = resources[i].status]_vars

C8_Witness ==
  \E i \in ResIds :
    /\ resources[i].status = "too_large"
    /\ resources[i].size_bytes = SizeAtLimit
    /\ regs = {}

(* C9: when the worker handles a selected row whose declared size is above  *)
(* the limit it sets too_large and calls neither the transfer nor           *)
(* writeFile; when the transfer reports a length above the limit it sets     *)
(* too_large and does not call writeFile; every transfer was called for a    *)
(* row whose declared size was within the limit, and a row that is ready     *)
(* had its body written.                                                     *)
C9_SizeGovernance ==
  /\ [](\A c \in transferCalls : c.sizeBytes <= maxBytesOf(resources[c.id].tenant_key))
  /\ [](\A i \in ResIds : resources[i].status = "ready" => i \in bodyWrites)
  /\ [][\A a \in ResAccounts :
          (/\ loops'[a] # loops[a]
           /\ \/ (loops[a].pc = "download" /\ Current(a).sizeBytes > maxBytesOf(a))
              \/ (loops[a].pc = "response" /\ loops[a].contentLength > maxBytesOf(a))) =>
            /\ resources'[Current(a).id].status = "too_large"
            /\ transferCalls' = transferCalls
            /\ bodyWrites' = bodyWrites]_vars

C9_Witness ==
  /\ \E i \in ResIds :
       /\ resources[i].status = "too_large"
       /\ resources[i].size_bytes = SizeOver
       /\ \A c \in transferCalls : c.id # i
  /\ \E i \in ResIds :
       /\ resources[i].status = "too_large"
       /\ resources[i].size_bytes = NoNumber
       /\ \E c \in transferCalls : c.id = i
       /\ i \notin bodyWrites

SameExceptMetadata(old, new) ==
  new = [old EXCEPT !.file_name = new.file_name, !.mime_type = new.mime_type,
                    !.size_bytes = new.size_bytes]

(* C10: no two rows share (tenant, message id, file key); the upsert of a   *)
(* registration leaves every existing row as it was except for file_name,   *)
(* mime_type and size_bytes, and afterwards each registered attachment has   *)
(* exactly one row.                                                         *)
C10_ReRegistration ==
  /\ [](\A i \in ResIds : \A j \in ResIds :
          (/\ resources[i].tenant_key = resources[j].tenant_key
           /\ resources[i].message_id = resources[j].message_id
           /\ resources[i].file_key = resources[j].file_key) => i = j)
  /\ [][\A r \in regs :
          (r.st = "upsert" /\ r \notin regs') =>
            /\ \A i \in 1..Len(resources) : SameExceptMetadata(resources[i], resources'[i])
            /\ \A n \in 1..Len(r.resources) :
                 Cardinality(RowMatch(resources', r.tenantKey, r.resources[n].messageId,
                                      r.resources[n].fileKey)) = 1]_vars

C10_Witness ==
  \E i \in ResIds :
    /\ resources[i].status = "ready"
    /\ resources[i].storage_path = <<"m1", "img1">>
    /\ resources[i].file_name = "a/b"
    /\ resources[i].size_bytes = SizeOver
    /\ resources[i].attempts >= 1

(***************************************************************************)
(* Properties of the scheduling guards.                                    *)
(***************************************************************************)
(* a step in which scheduleResourceDownloads is called for the account     *)
DownloadTriggered(a) == \E r \in regs : r.account = a /\ r.st = "then" /\ r \notin regs'

(* a step in which scheduleLarkExtraction is called for the account        *)
ExtractionTriggered(a) ==
  \/ a \in serviceStarted' /\ a \notin serviceStarted
  \/ loops[a].pc = "response" /\ Current(a).id \in extractionSignals' \ extractionSignals

(* C11: for each account and each subsystem a loop is started only when    *)
(* none is scheduled or running, and a trigger that arrives while the       *)
(* account's loop is scheduled or running changes neither the loops nor     *)
(* the markers.                                                            *)
C11_OneLoopPerAccount ==
  [][\A a \in ResAccounts :
       /\ (DownloadTriggered(a) /\ a \in downloadInFlight) =>
            (loops' = loops /\ downloadInFlight' = downloadInFlight)
       /\ (ExtractionTriggered(a) /\ a \in extractionInFlight) =>
            (extLoops' = extLoops /\ extractionInFlight' = extractionInFlight)
       /\ (a \notin downloadInFlight /\ a \in downloadInFlight') => loops[a].pc = "idle"
       /\ (a \notin extractionInFlight /\ a \in extractionInFlight') => extLoops[a].pc = "idle"
       /\ (loops[a].pc # "idle" /\ DownloadTriggered(a)) => loops'[a] = loops[a]
       /\ (extLoops[a].pc # "idle" /\ ExtractionTriggered(a)) => extLoops'[a] = extLoops[a]
    ]_vars

(* both registrations of a1 have called scheduleResourceDownloads and the   *)
(* service start and a finished download have called                        *)
(* scheduleLarkExtraction, and each subsystem has one loop in its first run *)
C11_Witness ==
  /\ regCount = 2 /\ regs = {}
  /\ Len(resources) = 1 /\ resources[1].tenant_key = resolveLarkTenantKey("a1", NULL)
  /\ resources[1].status = "ready" /\ resources[1].attempts = 1
  /\ loops["a1"].pc = "fetched" /\ "a1" \in downloadInFlight
  /\ "a1" \in serviceStarted /\ extractionSignals # {}
  /\ extLoops["a1"].pc = "docx" /\ "a1" \in extractionInFlight
  /\ Cardinality(capabilityCalls) = 1

(* C12: the guards are kept per account: a trigger for an account that has  *)
(* no loop starts that account's loop whatever the loops of the other       *)
(* accounts are doing, and leaves the other accounts' loops and markers     *)
(* alone.                                                                   *)
C12_GuardPerAccount ==
  [][\A a \in ResAccounts :
       /\ (DownloadTriggered(a) /\ a \notin downloadInFlight) =>
            /\ loops'[a].pc = "fetch" /\ a \in downloadInFlight'
            /\ \A b \in ResAccounts \ {a} :
                 loops'[b] = loops[b] /\ (b \in downloadInFlight' <=> b \in downloadInFlight)
       /\ (ExtractionTriggered(a) /\ a \notin extractionInFlight) =>
            /\ extLoops'[a].pc = "select" /\ a \in extractionInFlight'
            /\ \A b \in ResAccounts \ {a} :
                 extLoops'[b] = extLoops[b]
                 /\ (b \in extractionInFlight' <=> b \in extractionInFlight)
    ]_vars

(* the loops of both subsystems are active for both accounts at once, each  *)
(* extraction loop waiting for its capability                               *)
C12_Witness ==
  /\ extLoops["a1"].pc = "docx" /\ extLoops["a2"].pc = "asr"
  /\ extractionInFlight = {"a1", "a2"}
  /\ loops["a1"].pc # "idle" /\ loops["a2"].pc # "idle"
  /\ downloadInFlight = {"a1", "a2"}

C14_MarkerCleared ==
  /\ [](\A a \in ResAccounts :
          /\ a \in downloadInFlight <=> loops[a].pc # "idle"
          /\ a \in extractionInFlight <=> extLoops[a].pc # "idle")
  /\ [][\A a \in ResAccounts :
          /\ (loops[a].pc # "idle" /\ loops'[a].pc = "idle") => a \notin downloadInFlight'
          /\ (extLoops[a].pc # "idle" /\ extLoops'[a].pc = "idle") => a \notin extractionInFlight'
          /\ (loops[a].pc = "idle" /\ DownloadTriggered(a)) => loops'[a].pc = "fetch"
          /\ (extLoops[a].pc = "idle" /\ ExtractionTriggered(a)) => extLoops'[a].pc = "select"
       ]_vars

(* an extraction loop of a1 ended by an error of its capability that        *)
(* escaped (the row is left at processing), and a later trigger has         *)
(* scheduled a new loop; the download loop of a2 ended by an error of its   *)
(* SELECT with its row still pending, and its marker is gone                *)
C14_Witness ==
  /\ \E i \in 1..Len(extractions) :
       extractions[i].tenant_key = "a1" /\ extractions[i].status = "processing"
  /\ extLoops["a1"].pc = "select" /\ "a1" \in extractionInFlight
  /\ \E id \in ResIds : resources[id].tenant_key = "a2" /\ resources[id].status = "pending"
  /\ loops["a2"].pc = "idle" /\ "a2" \notin downloadInFlight
  /\ ~\E r \in regs : r.account = "a2"

(***************************************************************************)
(* Properties of the extraction lifecycle.                                 *)
(***************************************************************************)
(* the status of the extraction row of a resource, "none" without a row     *)
ExtStatus(tenantKey, resourceId) ==
  IF ExtIndex(extractions, tenantKey, resourceId) = 0 THEN "none"
  ELSE extractions[ExtIndex(extractions, tenantKey, resourceId)].status

(* C15: the extraction worker takes up a resource only when the resource is *)
(* ready and has no extraction row or a failed one, both when the batch is  *)
(* selected and when the task is begun; an extraction row exists only for   *)
(* a resource of the same tenant in status ready.                           *)
C15_ExtractionQueueing ==
  /\ [](\A i \in 1..Len(extractions) :
          /\ extractions[i].resource_id \in ResIds
          /\ resources[extractions[i].resource_id].status = "ready"
          /\ resources[extractions[i].resource_id].tenant_key = extractions[i].tenant_key)
  /\ [][\A a \in ResAccounts :
          /\ (extLoops[a].pc = "select" /\ extLoops'[a].pc = "mark") =>
               \A n \in 1..Len(extLoops'[a].pending) :
                 /\ resources[extLoops'[a].pending[n].resourceId].status = "ready"
                 /\ ExtStatus(resolveLarkTenantKey(a, NULL), extLoops'[a].pending[n].resourceId)
                      \in {"none", "failed"}
          /\ (extLoops[a].pc = "mark" /\ extLoops'[a] # extLoops[a]) =>
               /\ resources[ExtCurrent(a).resourceId].status = "ready"
               /\ ExtStatus(resolveLarkTenantKey(a, NULL), ExtCurrent(a).resourceId)
                    \in {"none", "failed"}
       ]_vars

(* a selection came back empty although the tenant has a ready resource     *)
(* whose extraction is empty and a linked doc without an extraction row,    *)
(* and a failed extraction has been selected again                          *)
C15_Witness ==
  /\ \E id \in ResIds : resources[id].status = "ready" /\ ExtStatus("a1", id) = "empty"
  /\ \E id \in ResIds : resources[id].status = "linked" /\ ExtStatus("a1", id) = "none"
  /\ extLoops["a1"].pc = "mark"
  /\ ExtStatus("a1", ExtCurrent("a1").resourceId) = "failed"

(* the extraction row of a resource after the step                          *)
ExtRowAfter(tenantKey, resourceId) ==
  extractions'[ExtIndex(extractions', tenantKey, resourceId)]

(* C16: when the OCR of an image returns, an empty text is stored as status *)
(* empty with no error and a non-empty text as ready; when the OCR throws   *)
(* the row is stored as failed with the error text; in the empty and the    *)
(* failed case nothing is handed to the memory sink, so a resource with a   *)
(* memory record has a ready extraction.                                    *)
C16_OcrOutcomes ==
  /\ [](\A id \in memoryCalls :
          id \in ResIds /\ ExtStatus(resources[id].tenant_key, id) = "ready")
  /\ [][\A a \in ResAccounts :
          (extLoops[a].pc = "ocr" /\ extLoops'[a] # extLoops[a]) =>
            LET row == ExtRowAfter(resolveLarkTenantKey(a, NULL), ExtCurrent(a).resourceId) IN
            /\ row.status \in {"ready", "empty", "failed"}
            /\ row.status = "ready" => (row.text \notin {"", NULL} /\ row.error = NULL)
            /\ row.status = "empty" =>
                 (row.text = "" /\ row.error = NULL /\ extLoops'[a].pc # "memory")
            /\ row.status = "failed" => (row.error # NULL /\ extLoops'[a].pc # "memory")
            /\ memoryCalls' = memoryCalls /\ memoryItems' = memoryItems
       ]_vars

(* one image whose OCR returned nothing and one image whose OCR threw, no   *)
(* memory record for either, and the loop has gone past both                *)
C16_Witness ==
  /\ \E i \in 1..Len(extractions) :
       /\ extractions[i].resource_type = "image" /\ extractions[i].status = "empty"
       /\ extractions[i].text = "" /\ extractions[i].error = NULL
       /\ extractions[i].resource_id \notin memoryCalls
  /\ \E i \in 1..Len(extractions) :
       /\ extractions[i].resource_type = "image" /\ extractions[i].status = "failed"
       /\ extractions[i].error = "capability error"
       /\ extractions[i].resource_id \notin memoryCalls
  /\ memoryItems = {}
  /\ extLoops["a1"].pc \notin {"ocr", "memory"}

(* an audio resource whose extraction has failed for the missing key        *)
MissingKeyFailed(tenantKey, resourceId) ==
  /\ ExtStatus(tenantKey, resourceId) = "failed"
  /\ extractions[ExtIndex(extractions, tenantKey, resourceId)].error = "missing OpenAI API key"

(* C17: an audio resource of an account without an API key is stored as     *)
(* failed with the missing-key error, the speech-to-text capability is      *)
(* never called for it, and once it has failed that way no later selection  *)
(* takes it up again.                                                       *)
C17_MissingKeyTerminal ==
  /\ [](\A c \in capabilityCalls : c[1] # "asr")
  /\ [][\A a \in ResAccounts :
          /\ (extLoops[a].pc = "nokey" /\ extLoops'[a] # extLoops[a]) =>
               LET row == ExtRowAfter(resolveLarkTenantKey(a, NULL), ExtCurrent(a).resourceId) IN
               row.status = "failed" /\ row.error = "missing OpenAI API key"
          /\ (extLoops[a].pc = "select" /\ extLoops'[a].pc = "mark") =>
               \A n \in 1..Len(extLoops'[a].pending) :
                 ~MissingKeyFailed(resolveLarkTenantKey(a, NULL),
                                   extLoops'[a].pending[n].resourceId)
       ]_vars

(* the kinds processExtractionTask has a branch for: image, audio, and a    *)
(* file whose name ends in .docx                                            *)
Extractable(row) ==
  \/ toLowerCase(row.resource_type) \in {"image", "audio"}
  \/ toLowerCase(row.resource_type) = "file" /\ EndsWithDocx(row.file_name)

(* C18: a file that is not a word document, a linked doc and every other    *)
(* kind without a capability are skipped: no extraction row exists for      *)
(* such a resource.                                                         *)
C18_SkippedKindsHaveNoRow ==
  \A id \in ResIds :
    ~Extractable(resources[id]) => ExtStatus(resources[id].tenant_key, id) = "none"

(* the extraction loop of the account is about to hand the text of the      *)
(* resource to recordLarkMemoryFromExtraction                               *)
MemoryStepAhead(a, resourceId) ==
  extLoops[a].pc = "memory" /\ ExtCurrent(a).resourceId = resourceId

(* C19: once an extraction has finished with a text that is not blank (the  *)
(* row is ready and the worker has gone past the task), the memory sink     *)
(* holds an item with that text for the resource's message, however the     *)
(* persist task of the message is interleaved with the download and the     *)
(* extraction.                                                              *)
C19_ReadyTextReachesMemory ==
  \A a \in ResAccounts : \A i \in 1..Len(extractions) :
    ( /\ extractions[i].tenant_key = resolveLarkTenantKey(a, NULL)
      /\ extractions[i].status = "ready"
      /\ Trim(extractions[i].text) # ""
      /\ ~MemoryStepAhead(a, extractions[i].resource_id) ) =>
        \E item \in memoryItems :
          /\ item.message_id = extractions[i].message_id
          /\ item.content = Trim(extractions[i].text)

(* C20: every extraction loop that has been started reaches an empty        *)
(* selection and ends, also when a capability fails on every call or the    *)
(* API key is missing.                                                      *)
C20_ExtractionLoopTerminates ==
  \A a \in ResAccounts : (extLoops[a].pc # "idle") ~> (extLoops[a].pc = "idle")

(***************************************************************************)
(* Properties of the attempt count.                                        *)
(***************************************************************************)
(* C30: the update that sets a resource to downloading is the one that      *)
(* raises its attempts by one, and no other step changes attempts: a        *)
(* resource whose download is under way has status downloading and          *)
(* attempts at least 1, a new row starts with attempts 0, and attempts      *)
(* goes up exactly in the steps in which the resource enters downloading.   *)
C30_MarkCountsAttempt ==
  /\ [](\A a \in ResAccounts :
          loops[a].pc \in {"download", "transfer", "response"} =>
            /\ resources[Current(a).id].status = "downloading"
            /\ resources[Current(a).id].attempts >= 1
            /\ resources[Current(a).id].attempts = Current(a).attempts + 1)
  /\ [][/\ \A id \in ResIds :
            /\ (resources'[id].status = "downloading" /\ resources[id].status # "downloading")
                 <=> resources'[id].attempts = resources[id].attempts + 1
            /\ resources'[id].attempts \in {resources[id].attempts, resources[id].attempts + 1}
        /\ \A id \in (1..Len(resources')) \ ResIds :
            resources'[id].attempts = 0 /\ resources'[id].status # "downloading"
       ]_vars

(* a resource in its third attempt with the transfer under way              *)
C30_Witness ==
  \E a \in ResAccounts :
    /\ loops[a].pc = "transfer"
    /\ resources[Current(a).id].status = "downloading"
    /\ resources[Current(a).id].attempts = MAX_ATTEMPTS

(* C21: every download loop that has been started ends: each pass over a    *)
(* selected resource finishes it or raises its attempts, so the selection   *)
(* becomes empty, also when every transfer fails.                           *)
C21_DownloadLoopTerminates ==
  \A a \in ResAccounts : (loops[a].pc # "idle") ~> (loops[a].pc = "idle")

(* every download of the account failed until the ceiling, and its loop     *)
(* has ended                                                                *)
C21_Witness ==
  /\ resources # <<>>
  /\ \A id \in ResIds : resources[id].status = "failed" /\ resources[id].attempts = MAX_ATTEMPTS
  /\ loops["a1"].pc = "idle" /\ "a1" \notin downloadInFlight

(* C22: a step taken while a loop works on one item never ends the loop:    *)
(* whatever the item's download or capability does, the loop goes on to the *)
(* next item or the next batch, and the item it leaves behind is no longer  *)
(* downloading or processing (an item that threw is failed with the error   *)
(* text).                                                                   *)
C22_ItemErrorsContained ==
  [][\A a \in ResAccounts :
       /\ loops[a].pc \in {"download", "transfer", "response"} =>
            /\ loops'[a].pc # "idle"
            /\ loops'[a].pc \notin {"download", "transfer", "response"} =>
                 /\ resources'[Current(a).id].status \in {"ready", "too_large", "failed"}
                 /\ resources'[Current(a).id].status = "failed" =>
                      resources'[Current(a).id].error # NULL
       /\ extLoops[a].pc \in {"ocr", "asr", "docx"} =>
            /\ extLoops'[a].pc # "idle"
            /\ extLoops'[a] # extLoops[a] =>
                 LET row == ExtRowAfter(resolveLarkTenantKey(a, NULL), ExtCurrent(a).resourceId) IN
                 /\ row.status \in {"ready", "empty", "failed"}
                 /\ row.status = "failed" => row.error # NULL
    ]_vars

(***************************************************************************)
(* Properties of the directory synchronisation.                            *)
(***************************************************************************)

(* C23: the commit of a sync leaves as the relation rows of its tenant     *)
(* exactly the relations the sync collected, so that a relation of an      *)
(* earlier sync that was not collected again is gone; and no step removes  *)
(* a department row or a user row: those of earlier syncs stay.            *)
C23_RelationsReplacedRowsKept ==
  [][/\ \A r \in DOMAIN syncRuns :
          (syncRuns[r].pc = "commit" /\ syncRuns'[r].pc = "done") =>
            {row \in orgUserDepartmentRel' :
               row.tenant_key = resolveLarkTenantKey(syncRuns[r].account, NULL)}
              = {[tenant_key |-> resolveLarkTenantKey(syncRuns[r].account, NULL),
                  user_key |-> syncRuns[r].relations[i].userKey,
                  department_id |-> syncRuns[r].relations[i].departmentId,
                  is_primary |-> IF syncRuns[r].relations[i].isPrimary THEN 1 ELSE 0] :
                 i \in DOMAIN syncRuns[r].relations}
     /\ \A row \in orgDepartment :
          \E kept \in orgDepartment' :
            kept.tenant_key = row.tenant_key /\ kept.department_id = row.department_id
     /\ orgUser \subseteq orgUser'
    ]_vars

(* a1's second sync has committed the small directory after the full one:  *)
(* User2 in d1 is its only relation, and the row of d2 is still there      *)
C23_Witness ==
  /\ {row \in orgUserDepartmentRel : row.tenant_key = "a1"}
       = {[tenant_key |-> "a1", user_key |-> "u2", department_id |-> "d1", is_primary |-> 0]}
  /\ \E row \in orgDepartment : row.tenant_key = "a1" /\ row.department_id = "d2"
  /\ [tenant_key |-> "a1", user_key |-> "ou1"] \in orgUser
  /\ \E r \in DOMAIN syncRuns : syncRuns[r].account = "a1" /\ syncRuns[r].pc = "done"

(* C24: the rows of the three tables change only in the step in which a    *)
(* sync commits, so nothing a sync has written is visible before; a sync   *)
(* whose statement failed never commits: it leaves the catch with the      *)
(* rows untouched and with the error handed to its caller.                 *)
C24_FailedWriteLeavesRows ==
  [][/\ <<orgDepartment, orgUser, orgUserDepartmentRel>>'
          # <<orgDepartment, orgUser, orgUserDepartmentRel>> =>
          \E r \in DOMAIN syncRuns : syncRuns[r].pc = "commit" /\ syncRuns'[r].pc = "done"
     /\ \A r \in DOMAIN syncRuns :
          (syncRuns[r].pc = "rollback" /\ syncRuns'[r] # syncRuns[r]) =>
            /\ syncRuns'[r].pc = "failed"
            /\ syncRuns'[r].error = "write"
            /\ <<orgDepartment, orgUser, orgUserDepartmentRel>>'
                 = <<orgDepartment, orgUser, orgUserDepartmentRel>>
    ]_vars

(* a1's second sync has failed in its write phase after its DELETE and is  *)
(* over; the relations of its first sync are all there                     *)
C24_Witness ==
  /\ \E q, r \in DOMAIN syncRuns :
       /\ q < r
       /\ syncRuns[q].account = "a1"
       /\ syncRuns[q].pc = "done"
       /\ syncRuns[r].account = "a1"
       /\ syncRuns[r].pc = "failed"
       /\ syncRuns[r].error = "write"
  /\ Cardinality({row \in orgUserDepartmentRel : row.tenant_key = "a1"}) = 3
  /\ "a1" \notin inFlight

(* C25: a sync whose children listings never held the configured root id   *)
(* and whose direct fetch of the root threw has come out of the traversal  *)
(* without an error, with a department list that holds the root id         *)
(* exactly once, under the name "Root Department".                         *)
C25_RootPlaceholder ==
  \A r \in DOMAIN syncRuns :
    LET sync == syncRuns[r]
        report == DirectoryReports[sync.report]
        rootId == DEFAULT_ROOT_DEPARTMENT_ID IN
    (/\ sync.report # NULL
     /\ report.root = "throws"
     /\ \A d \in DOMAIN report.children :
          \A p \in DOMAIN report.children[d] :
            /\ ~report.children[d][p].throws
            /\ \A i \in DOMAIN report.children[d][p].items :
                 report.children[d][p].items[i].department_id # rootId) =>
      /\ sync.error # "fetch"
      /\ Cardinality({i \in DOMAIN sync.departments :
                        sync.departments[i].department_id = rootId}) = 1
      /\ \A i \in DOMAIN sync.departments :
           sync.departments[i].department_id = rootId =>
             sync.departments[i].name = "Root Department"

(* a sync of the small directory, whose root could not be fetched, stands  *)
(* before its write phase with the placeholder in front of d1              *)
C25_Witness ==
  \E r \in DOMAIN syncRuns :
    /\ syncRuns[r].report = "small"
    /\ syncRuns[r].pc = "begin"
    /\ syncRuns[r].departments
         = <<LarkDepartment(DEFAULT_ROOT_DEPARTMENT_ID, "Root Department"),
             LarkDepartment("d1", "Sales")>>

(* C26: in a sync whose traversal succeeded, a department whose member     *)
(* listing threw on one of its pages has no relation and gives no user,    *)
(* every member of every other listed department has its relation and is   *)
(* among the users, and the sync has not failed in the collection.         *)
C26_FailedDepartmentSkipped ==
  \A r \in DOMAIN syncRuns :
    LET sync == syncRuns[r]
        report == DirectoryReports[sync.report]
        childrenFail == \E d \in DOMAIN report.children :
                          \E p \in DOMAIN report.children[d] : report.children[d][p].throws
        listedIds == {sync.departments[i].department_id : i \in DOMAIN sync.departments}
        fails(d) == \E p \in DOMAIN report.members[d] : report.members[d][p].throws
        keysOf(d) == UNION {{resolveLarkUserKey(report.members[d][p].items[i]) :
                               i \in DOMAIN report.members[d][p].items} :
                            p \in DOMAIN report.members[d]} IN
    (sync.report # NULL /\ ~childrenFail) =>
      /\ sync.error # "fetch"
      /\ \A d \in listedIds :
           IF fails(d)
           THEN \A i \in DOMAIN sync.relations : sync.relations[i].departmentId # d
           ELSE \A key \in keysOf(d) :
                  /\ \E i \in DOMAIN sync.relations :
                       sync.relations[i].userKey = key /\ sync.relations[i].departmentId = d
                  /\ \E i \in DOMAIN sync.users : sync.users[i] = key
      /\ \A i \in DOMAIN sync.users :
           \E d \in listedIds : ~fails(d) /\ sync.users[i] \in keysOf(d)

(* the member listing of d2 threw on its second page, after User1 on the   *)
(* first: the sync stands before its write phase with User1 in d1 alone    *)
C26_Witness ==
  \E r \in DOMAIN syncRuns :
    /\ syncRuns[r].report = "membersFail"
    /\ syncRuns[r].pc = "begin"
    /\ syncRuns[r].users = <<"ou1">>
    /\ syncRuns[r].relations
         = <<[userKey |-> "ou1", departmentId |-> "d1", isPrimary |-> TRUE]>>

(* C27: of every account at most one execution of the directory sync is    *)
(* under way at a time.                                                    *)
C27_OneSyncPerAccount ==
  \A a \in ResAccounts :
    Cardinality({r \in DOMAIN syncRuns :
                   syncRuns[r].account = a /\ syncRuns[r].pc \notin {"done", "failed"}}) <= 1

(***************************************************************************)
(* Properties of the schema memo.                                          *)
(***************************************************************************)

(* C28: of one key at most one creation runs at a time and it is the one   *)
(* the memo holds; a creation is started after another of its key only     *)
(* when that one was rejected, never after one that succeeded; and a call  *)
(* that arrives while a creation of its key runs starts none and awaits    *)
(* that creation.                                                          *)
C28_OneCreationShared ==
  /\ [](\A s \in DOMAIN schemaRuns :
          /\ schemaRuns[s].status = "running" => schemaReady[schemaRuns[s].key] = s
          /\ \A t \in DOMAIN schemaRuns :
               (s < t /\ schemaRuns[s].key = schemaRuns[t].key) =>
                 schemaRuns[s].status = "rejected")
  /\ [][\A s \in DOMAIN schemaRuns :
          schemaRuns[s].status = "running" =>
            \A r \in DOMAIN syncRuns' \ DOMAIN syncRuns :
              resolveLarkMySqlContext(syncRuns'[r].account) = schemaRuns[s].key =>
                /\ syncRuns'[r].awaits = s
                /\ schemaRuns' = schemaRuns
       ]_vars

(* three syncs have called ensureLarkSchema, the third after the creation  *)
(* had succeeded: there is one creation, and all three awaited it          *)
C28_Witness ==
  /\ Len(schemaRuns) = 1
  /\ schemaRuns[1].status = "resolved"
  /\ Len(syncRuns) = 3
  /\ \A r \in DOMAIN syncRuns : syncRuns[r].awaits = 1
  /\ syncRuns[3].pc = "schema"

(* C29: a creation that was rejected is not in the memo, the sync that     *)
(* started it has failed with its error, and a sync that awaited it        *)
(* either has not resumed yet or has failed with that error; the entry of  *)
(* a creation leaves the memo only in the step in which that creation is   *)
(* rejected; and a call that finds no entry starts a new creation and      *)
(* awaits it.                                                              *)
C29_FailedCreationForgotten ==
  /\ [](\A s \in DOMAIN schemaRuns :
          schemaRuns[s].status = "rejected" =>
            /\ schemaReady[schemaRuns[s].key] # s
            /\ \A r \in DOMAIN syncRuns :
                 syncRuns[r].awaits = s =>
                   /\ syncRuns[r].pc \in {"schema", "failed"}
                   /\ syncRuns[r].creator => syncRuns[r].pc = "failed"
                   /\ syncRuns[r].pc = "failed" => syncRuns[r].error = "schema")
  /\ [][/\ \A k \in Keys :
             (schemaReady[k] # 0 /\ schemaReady'[k] # schemaReady[k]) =>
               /\ schemaRuns[schemaReady[k]].status = "running"
               /\ schemaRuns'[schemaReady[k]].status = "rejected"
        /\ \A r \in DOMAIN syncRuns' \ DOMAIN syncRuns :
             schemaReady[resolveLarkMySqlContext(syncRuns'[r].account)] = 0 =>
               /\ syncRuns'[r].awaits \in DOMAIN schemaRuns' \ DOMAIN schemaRuns
               /\ schemaRuns'[syncRuns'[r].awaits].status = "running"
               /\ schemaReady'[resolveLarkMySqlContext(syncRuns'[r].account)]
                    = syncRuns'[r].awaits
       ]_vars

(* the first creation was rejected and a1's next sync has started a        *)
(* second, which the memo holds, while a2's sync, which awaited the        *)
(* first, has not yet resumed                                              *)
C29_Witness ==
  /\ Len(schemaRuns) = 2
  /\ schemaRuns[1].status = "rejected"
  /\ schemaRuns[2].status = "running"
  /\ schemaReady["k1"] = 2
  /\ \E r \in DOMAIN syncRuns :
       syncRuns[r].awaits = 1 /\ ~syncRuns[r].creator /\ syncRuns[r].pc = "schema"
  /\ \E r \in DOMAIN syncRuns :
       syncRuns[r].awaits = 1 /\ syncRuns[r].creator /\ syncRuns[r].error = "schema"

(***************************************************************************)
(* Further properties of the resource and extraction lifecycles.           *)
(***************************************************************************)

(* C31: a row registered for a document reference has status linked and    *)
(* attempts 0 in every state, no batch of a download loop holds a          *)
(* document, and no step changes the status or the attempts of a linked    *)
(* row.                                                                    *)
C31_LinkedNeverDownloaded ==
  /\ [](/\ \A i \in ResIds :
             (resources[i].resource_type = "doc" <=> resources[i].status = "linked")
             /\ (resources[i].status = "linked" => resources[i].attempts = 0)
        /\ \A a \in ResAccounts :
             \A n \in DOMAIN loops[a].pending : loops[a].pending[n].resourceType # "doc")
  /\ [][\A i \in ResIds :
          resources[i].status = "linked" =>
            resources'[i].status = "linked" /\ resources'[i].attempts = 0
       ]_vars

(* the file of message m2 has been worked through by a1's loop, which has  *)
(* ended, and the document of the same message is linked                   *)
C31_Witness ==
  /\ \E i, j \in ResIds :
       /\ resources[i].tenant_key = "a1"
       /\ resources[i].message_id = "m2"
       /\ resources[i].resource_type = "doc"
       /\ resources[i].status = "linked"
       /\ resources[j].tenant_key = "a1"
       /\ resources[j].message_id = "m2"
       /\ resources[j].status = "too_large"
  /\ loops["a1"].pc = "idle"
  /\ "a1" \notin downloadInFlight

(* C32: scheduleLarkExtraction is called after a download only in a step   *)
(* that leaves the resource ready with its storage path written, every     *)
(* step that makes a resource ready calls it and leaves a loop of the      *)
(* account scheduled or running, and a resource it was called for is       *)
(* ready with its path in every later state.                               *)
C32_TriggerAfterReady ==
  /\ [](\A i \in extractionSignals :
          resources[i].status = "ready" /\ resources[i].storage_path # NoPath)
  /\ [][\A i \in ResIds :
          /\ i \in extractionSignals' \ extractionSignals =>
               resources'[i].status = "ready" /\ resources'[i].storage_path # NoPath
          /\ (resources[i].status # "ready" /\ resources'[i].status = "ready") =>
               /\ i \in extractionSignals'
               /\ resources'[i].storage_path # NoPath
               /\ \E a \in ResAccounts :
                    /\ resolveLarkTenantKey(a, NULL) = resources[i].tenant_key
                    /\ a \in extractionInFlight'
                    /\ extLoops'[a].pc # "idle"
       ]_vars

(* an image of a1 is ready with its path, the trigger was issued and a1's  *)
(* extraction loop is at work on it                                        *)
C32_Witness ==
  \E i \in extractionSignals :
    /\ resources[i].tenant_key = "a1"
    /\ resources[i].status = "ready"
    /\ resources[i].storage_path # NoPath
    /\ extLoops["a1"].pc = "ocr"
    /\ ExtCurrent("a1").resourceId = i

(***************************************************************************)
(* Further properties of the directory synchronisation.                    *)
(***************************************************************************)

(* C33: the department list a sync holds after the traversal has no        *)
(* department id twice.                                                    *)
C33_DepartmentsListedOnce ==
  \A r \in DOMAIN syncRuns :
    \A i, j \in DOMAIN syncRuns[r].departments :
      syncRuns[r].departments[i].department_id = syncRuns[r].departments[j].department_id
        => i = j

(* C34: the traversal of a sync that holds the platform's answers has      *)
(* come to its end, after requesting the children listing of each          *)
(* department id at most once and of no more ids than the answers know,    *)
(* and what it returned is what the sync holds: also when a department     *)
(* has two parents and the listings form a cycle.                          *)
C34_TraversalEndsOneListingEach ==
  \A r \in DOMAIN syncRuns :
    LET sync == syncRuns[r]
        report == DirectoryReports[sync.report]
        listed == traverseDepartments(report, <<DEFAULT_ROOT_DEPARTMENT_ID>>, {}, <<>>) IN
    sync.report # NULL =>
      /\ sync.pc # "schema"
      /\ \A i, j \in DOMAIN listed.fetched : listed.fetched[i] = listed.fetched[j] => i = j
      /\ \A i \in DOMAIN listed.fetched : listed.fetched[i] \in DOMAIN report.children
      /\ listed.throws <=> sync.error = "fetch"
      /\ \A i \in DOMAIN listed.departments :
           \E j \in DOMAIN sync.departments : sync.departments[j] = listed.departments[i]

(* a sync of the directory with two parents and a cycle stands before its  *)
(* write phase: the root, d1 and d2 were each listed once                  *)
C34_Witness ==
  \E r \in DOMAIN syncRuns :
    /\ syncRuns[r].report = "shared"
    /\ syncRuns[r].pc = "begin"
    /\ traverseDepartments(DirectoryReports["shared"], <<DEFAULT_ROOT_DEPARTMENT_ID>>, {},
                           <<>>).fetched = <<DEFAULT_ROOT_DEPARTMENT_ID, "d1", "d2">>
    /\ Len(syncRuns[r].departments) = 5

(* C38: the relation list a sync holds has no (user key, department id)    *)
(* pair twice.                                                             *)
C38_RelationsPairOnce ==
  \A r \in DOMAIN syncRuns :
    \A i, j \in DOMAIN syncRuns[r].relations :
      (/\ syncRuns[r].relations[i].userKey = syncRuns[r].relations[j].userKey
       /\ syncRuns[r].relations[i].departmentId = syncRuns[r].relations[j].departmentId)
        => i = j

(* C40: the department, user and relation rows of a tenant change only in  *)
(* the step in which a sync of an account of that tenant commits; the      *)
(* commit of another tenant's sync leaves them as they are.                *)
C40_OtherTenantsUntouched ==
  [][\A a \in ResAccounts :
       LET tenantKey == resolveLarkTenantKey(a, NULL)
           rowsOf(table) == {row \in table : row.tenant_key = tenantKey} IN
       (\/ rowsOf(orgDepartment') # rowsOf(orgDepartment)
        \/ rowsOf(orgUser') # rowsOf(orgUser)
        \/ rowsOf(orgUserDepartmentRel') # rowsOf(orgUserDepartmentRel)) =>
         \E r \in DOMAIN syncRuns :
           /\ resolveLarkTenantKey(syncRuns[r].account, NULL) = tenantKey
           /\ syncRuns[r].pc = "commit"
           /\ syncRuns'[r].pc = "done"
    ]_vars

(* a1 has committed the small directory after the full one while a2's      *)
(* rows of the full directory are all there and a2's next sync has its     *)
(* DELETE in a transaction                                                 *)
C40_Witness ==
  /\ Cardinality({row \in orgUserDepartmentRel : row.tenant_key = "a1"}) = 1
  /\ Cardinality({row \in orgUserDepartmentRel : row.tenant_key = "a2"}) = 3
  /\ Cardinality({row \in orgDepartment : row.tenant_key = "a2"}) = 3
  /\ \E r \in DOMAIN syncRuns :
       /\ syncRuns[r].account = "a2"
       /\ syncRuns[r].pc = "relations"
       /\ "relDelete" \in {syncRuns[r].tx[i] : i \in DOMAIN syncRuns[r].tx}

(* C35: whenever the download loop of an account reads a batch, every      *)
(* selectable row (pending or failed, attempts below the ceiling) stored   *)
(* under a tenant key that the account's registrations use is part of the  *)
(* batch: registration and selection agree on the tenant key, also for an  *)
(* event whose tenant_key differs from the account id.                     *)
C35_RegisteredRowsSelected ==
  [][\A a \in ResAccounts :
       LET registeredKeys == {resolveLarkTenantKey(a, e.tenant_key) : e \in ResEventsOf(a)} IN
       (loops[a].pc = "fetch" /\ loops'[a].pc # "fetch") =>
         \A id \in ResIds :
           (/\ resources[id].tenant_key \in registeredKeys
            /\ resources[id].status \in {"pending", "failed"}
            /\ resources[id].attempts < MAX_ATTEMPTS) =>
             \E k \in 1..Len(loops'[a].pending) : loops'[a].pending[k].id = id
    ]_vars

(* C36: when the download loop of an account has ended and none is running *)
(* (no marker, loop idle), no resource of the account's tenant is left in  *)
(* status downloading, also after a status update of the loop has failed.  *)
C36_NoneLeftDownloading ==
  \A a \in ResAccounts :
    (a \notin downloadInFlight /\ loops[a].pc = "idle") =>
      \A id \in ResIds :
        resources[id].tenant_key = resolveLarkTenantKey(a, NULL) =>
          resources[id].status # "downloading"

(* C37: in every reachable state the attempts of every resource lie        *)
(* between 0 and MAX_ATTEMPTS, and no step lowers the attempts of a        *)
(* resource.                                                               *)
C37_AttemptsBoundedMonotone ==
  /\ [](\A id \in ResIds : resources[id].attempts \in 0..MAX_ATTEMPTS)
  /\ [][\A id \in ResIds : resources'[id].attempts >= resources[id].attempts]_vars

(* a resource that became ready in its last allowed attempt, next to one   *)
(* that was never attempted                                                *)
C37_Witness ==
  /\ \E id \in ResIds : resources[id].attempts = MAX_ATTEMPTS /\ resources[id].status = "ready"
  /\ \E id \in ResIds : resources[id].attempts = 0

(* C39: an extraction row that is ready with its text recorded is not      *)
(* overwritten to failed by any later step and keeps its text, also when   *)
(* the hand-over of the text to the memory sink raises an error.           *)
C39_ReadyTextKept ==
  [][\A i \in 1..Len(extractions) :
       (extractions[i].status = "ready" /\ extractions[i].text \notin {NULL, ""}) =>
         /\ extractions'[i].status # "failed"
         /\ extractions'[i].text = extractions[i].text
    ]_vars

====
